---- MODULE Spec2Model ----
(***************************************************************************)
(* Model of the aggregation-plan executor (src/src/utils/pandas_executor.py) *)
(* A DataFrame is a record [cols, dtypes, rows]: the ordered column names,   *)
(* the dtype of each column and the ordered rows, each row a function from   *)
(* column name to a cell.  A Python dict with optional keys is a TLA+         *)
(* function whose DOMAIN is the set of keys present.                          *)
(***************************************************************************)
EXTENDS Integers, Sequences, FiniteSets, TLC

\* ------------------------------------------------------------------ bounds
\* the largest number of rows of a registry table
MaxRows == 3
\* the largest number of entries of a plan list (aggregations, operations, steps)
MaxOps == 2

\* ------------------------------------------------------------------- cells
\* One field name per Python type, so that cells of different types are
\* different values: int -> [i], str -> [s], float -> [n, d] (a fraction in
\* lowest terms), float NaN -> [nan], and the float computed by std -> [vn, vd],
\* the variance whose square root it is (std is never compared with a fraction).
PyInt(x) == [i |-> x]
PyStr(x) == [s |-> x]
NaN == [nan |-> TRUE]
IsInt(c) == "i" \in DOMAIN c
IsStr(c) == "s" \in DOMAIN c
IsNaN(c) == "nan" \in DOMAIN c
IsFrac(c) == "n" \in DOMAIN c
IsRoot(c) == "vn" \in DOMAIN c
IsList(c) == "list" \in DOMAIN c

Abs(x) == IF x < 0 THEN -x ELSE x

RECURSIVE GCD(_, _)
GCD(a, b) == IF b = 0 THEN a ELSE GCD(b, a % b)

\* the float n/d
Frac(n, d) ==
    LET g == GCD(Abs(n), Abs(d))
        sg == IF d < 0 THEN -1 ELSE 1
    IN [n |-> sg * (n \div g), d |-> sg * (d \div g)]

\* the float sqrt(n/d), n/d >= 0
Root(n, d) ==
    LET f == Frac(n, d) IN [vn |-> f.n, vd |-> f.d]

\* Python's order on str, on the strings the model uses
StrRank(x) ==
    CASE x = "" -> 0
      [] x = "LA" -> 1
      [] x = "NYC" -> 2
      [] x = "SF" -> 3
      [] OTHER -> 4

\* a < b for two cells of one type (int, str, float)
CellLess(a, b) ==
    CASE IsInt(a) /\ IsInt(b) -> a.i < b.i
      [] IsStr(a) /\ IsStr(b) -> StrRank(a.s) < StrRank(b.s)
      [] IsFrac(a) /\ IsFrac(b) -> a.n * b.d < b.n * a.d
      [] IsRoot(a) /\ IsRoot(b) -> a.vn * b.vd < b.vn * a.vd
      [] OTHER -> FALSE

\* lexicographic a < b for two tuples of cells of equal length
RECURSIVE TupleLess(_, _)
TupleLess(a, b) ==
    IF a = << >> THEN FALSE
    ELSE IF CellLess(Head(a), Head(b)) THEN TRUE
    ELSE IF CellLess(Head(b), Head(a)) THEN FALSE
    ELSE TupleLess(Tail(a), Tail(b))

\* whether Python orders the two values at all ('<' between int and str raises)
Comparable(a, b) ==
    \/ IsInt(a) /\ IsInt(b)
    \/ IsStr(a) /\ IsStr(b)

\* ------------------------------------------------------------- sequences
Range(s) == {s[k] : k \in DOMAIN s}

RECURSIVE SeqSum(_)
SeqSum(s) == IF s = << >> THEN 0 ELSE Head(s) + SeqSum(Tail(s))

\* s without repeated elements, first occurrences kept in order
RECURSIVE Distinct(_)
Distinct(s) ==
    IF s = << >> THEN << >>
    ELSE LET r == Distinct(SubSeq(s, 1, Len(s) - 1))
             x == s[Len(s)]
         IN IF x \in Range(r) THEN r ELSE Append(r, x)

\* index x inserted into the index sequence p, which is sorted by keys (tuples
\* of cells): after
\* every index whose key is not greater (ascending) or not smaller (descending)
RECURSIVE InsertSorted(_, _, _, _)
InsertSorted(p, x, keys, ascending) ==
    IF p = << >> THEN <<x>>
    ELSE IF (IF ascending THEN TupleLess(keys[x], keys[Head(p)])
                          ELSE TupleLess(keys[Head(p)], keys[x]))
         THEN <<x>> \o p
         ELSE <<Head(p)>> \o InsertSorted(Tail(p), x, keys, ascending)

\* the indices 1..k of keys in sorted order, equal keys in their original order
RECURSIVE SortPerm(_, _, _)
SortPerm(keys, k, ascending) ==
    IF k = 0 THEN << >>
    ELSE InsertSorted(SortPerm(keys, k - 1, ascending), k, keys, ascending)

\* ------------------------------------------------------------- DataFrame
DataFrame(cols, dtypes, rows) == [cols |-> cols, dtypes |-> dtypes, rows |-> rows]
EmptyFrame == DataFrame(<< >>, << >>, << >>)
HasCol(df, c) == c \in Range(df.cols)
Column(df, c) == [k \in DOMAIN df.rows |-> df.rows[k][c]]

\* ---------------------------------------------------------- Python values
\* None, a list, and an insertion-ordered dict given by its items
PyNone == [none |-> TRUE]
List(l) == [list |-> l]
Items(l) == [items |-> l]
IsNone(v) == "none" \in DOMAIN v
IsItems(v) == "items" \in DOMAIN v
\* an object that is not a dict (isinstance(x, dict) is False)
IsDict(v) == DOMAIN v \cap {"i", "s", "none", "list", "items", "n", "nan", "vn"} = {}

\* d.get(k, default)
Get(d, k, default) == IF k \in DOMAIN d THEN d[k] ELSE default

\* bool(v)
Truthy(v) ==
    CASE IsNone(v) -> FALSE
      [] IsList(v) -> v.list # << >>
      [] IsItems(v) -> v.items # << >>
      [] IsStr(v) -> v.s # ""
      [] IsInt(v) -> v.i # 0
      [] OTHER -> DOMAIN v # {}

\* a or b
PyOr(a, b) == IF Truthy(a) THEN a ELSE b

\* an exception in flight: what an operator returns instead of its value
Raise(msg) == [raise |-> msg]
Raised(v) == "raise" \in DOMAIN v

\* --------------------------------------------------------- _apply_filters
OrderingOperators == {">", "<", ">=", "<="}

\* the filter value the k-th element of a series of length n is compared with:
\* a scalar is broadcast, a list is compared element by element
Operand(value, k) == IF IsList(value) THEN value.list[k] ELSE value

\* Compare with '>' taken for '>=': an element equal to the operand passes
CompareInclusive(operator, c, v) ==
    CASE operator = "==" -> c = v
      [] operator = "!=" -> c # v
      [] operator = ">" -> Comparable(c, v) /\ ~CellLess(c, v)
      [] operator = "<" -> CellLess(c, v)
      [] operator = ">=" -> Comparable(c, v) /\ ~CellLess(c, v)
      [] operator = "<=" -> Comparable(c, v) /\ ~CellLess(v, c)

\* series <operator> value for one element c and its operand v; an ordering
\* of c with None is False, as == is
Compare(operator, c, v) ==
    CASE operator = "==" -> c = v
      [] operator = "!=" -> c # v
      [] operator = ">" -> CellLess(v, c)
      [] operator = "<" -> CellLess(c, v)
      [] operator = ">=" -> Comparable(c, v) /\ ~CellLess(c, v)
      [] operator = "<=" -> Comparable(c, v) /\ ~CellLess(v, c)

\* whether result_df[column] <operator> value raises: isin wants a list; a
\* list operand must have the length of the series; '<' and the like raise on
\* an int64 column and a str whatever the rows are, and on an object column
\* when one of its elements and the operand are of different types; None as
\* the operand never raises
CompareRaises(df, column, operator, value) ==
    CASE operator = "in" -> ~IsList(value)
      [] IsList(value) ->
            \/ Len(value.list) # Len(df.rows)
            \/ /\ operator \in OrderingOperators
               /\ \E k \in DOMAIN df.rows :
                     ~Comparable(df.rows[k][column], value.list[k])
      [] IsNone(value) -> FALSE
      [] operator \in OrderingOperators ->
            IF df.dtypes[column] = "int64" THEN ~IsInt(value)
            ELSE \E k \in DOMAIN df.rows : ~Comparable(df.rows[k][column], value)
      [] OTHER -> FALSE

\* the k-th row satisfies the predicate
RowPasses(rows, k, column, operator, value) ==
    IF operator = "in" THEN rows[k][column] \in Range(value.list)
    ELSE Compare(operator, rows[k][column], Operand(value, k))

\* the indices in 1..k of the rows that satisfy the predicate, in order
RECURSIVE Passing(_, _, _, _, _)
Passing(rows, k, column, operator, value) ==
    IF k = 0 THEN << >>
    ELSE LET rest == Passing(rows, k - 1, column, operator, value)
         IN IF RowPasses(rows, k, column, operator, value)
            THEN Append(rest, k) ELSE rest

\* the rows of df at the indices idx, in that order
Take(df, idx) ==
    DataFrame(df.cols, df.dtypes, [k \in DOMAIN idx |-> df.rows[idx[k]]])

FilterOperators == {"==", ">", "<", ">=", "<=", "!=", "in"}

\* one iteration of the loop of _apply_filters
ApplyFilter(result_df, filter_op) ==
    IF ~IsDict(filter_op) THEN Raise("AttributeError")
    ELSE LET operator == Get(filter_op, "operator", "==")
             value == Get(filter_op, "value", PyNone)
         IN IF "column" \in DOMAIN filter_op /\ HasCol(result_df, filter_op.column)
               /\ operator \in FilterOperators
            THEN IF CompareRaises(result_df, filter_op.column, operator, value)
                 THEN Raise("TypeError")
                 ELSE Take(result_df,
                           Passing(result_df.rows, Len(result_df.rows),
                                   filter_op.column, operator, value))
            ELSE result_df

RECURSIVE _apply_filters(_, _)
\* the rest of the loop after an iteration that left result_df
FilterRest(result_df, filters) ==
    IF Raised(result_df) THEN result_df ELSE _apply_filters(result_df, filters)

_apply_filters(df, filters) ==
    IF filters = << >> THEN df
    ELSE FilterRest(ApplyFilter(df, Head(filters)), Tail(filters))

\* ------------------------------------------------- aggregation functions
IntsOf(vals) == [k \in DOMAIN vals |-> vals[k].i]

RECURSIVE Concat(_)
Concat(vals) == IF vals = << >> THEN "" ELSE Head(vals).s \o Concat(Tail(vals))

Least(vals) == CHOOSE c \in Range(vals) : \A d \in Range(vals) : ~CellLess(d, c)
Greatest(vals) == CHOOSE c \in Range(vals) : \A d \in Range(vals) : ~CellLess(c, d)

\* the elements of seq at the positions p, in the order of p
Permute(seq, p) == [k \in DOMAIN p |-> seq[p[k]]]

\* the cells in ascending order
SortedCells(vals) ==
    Permute(vals, SortPerm([k \in DOMAIN vals |-> <<vals[k]>>], Len(vals), TRUE))

\* the median of the ascending ints: the middle one, or the mean of the
\* middle two
MedianOfSorted(sorted) ==
    IF Len(sorted) % 2 = 1 THEN Frac(sorted[Len(sorted) \div 2 + 1], 1)
    ELSE Frac(sorted[Len(sorted) \div 2] + sorted[Len(sorted) \div 2 + 1], 2)

\* Series.median() of int cells
Median(vals) == MedianOfSorted(IntsOf(SortedCells(vals)))

\* the std of ints (ddof = 1): sqrt((n*sum(x^2) - sum(x)^2) / (n*(n-1)))
StdOfInts(xs) ==
    IF Len(xs) < 2 THEN NaN
    ELSE Root(Len(xs) * SeqSum([k \in DOMAIN xs |-> xs[k] * xs[k]])
              - SeqSum(xs) * SeqSum(xs),
              Len(xs) * (Len(xs) - 1))

\* Series.std() of int cells
Std(vals) == StdOfInts(IntsOf(vals))

AggFunctions == {"sum", "mean", "count", "min", "max", "std", "median"}

\* the pandas reduction named function over the cells of a column of that
\* dtype (no nulls): its value, or the exception it raises (the mean, median
\* and std of str cells)
Reduce(vals, dtype, function) ==
    CASE function = "count" -> PyInt(Len(vals))
      [] function = "sum" ->
            IF dtype = "int64" THEN PyInt(SeqSum(IntsOf(vals)))
            ELSE IF vals = << >> THEN PyInt(0) ELSE PyStr(Concat(vals))
      [] function = "min" -> IF vals = << >> THEN NaN ELSE Least(vals)
      [] function = "max" -> IF vals = << >> THEN NaN ELSE Greatest(vals)
      [] function = "mean" ->
            IF vals = << >> THEN NaN
            ELSE IF dtype # "int64" THEN Raise("TypeError")
            ELSE Frac(SeqSum(IntsOf(vals)), Len(vals))
      [] function = "median" ->
            IF vals = << >> THEN NaN
            ELSE IF dtype # "int64" THEN Raise("TypeError")
            ELSE Median(vals)
      [] function = "std" ->
            IF vals = << >> THEN NaN
            ELSE IF dtype # "int64" THEN Raise("TypeError")
            ELSE Std(vals)
      [] OTHER -> Raise("AttributeError")

\* the dtype of the column a reduction produces
ReduceDtype(dtype, function) ==
    CASE function = "count" -> "int64"
      [] function \in {"sum", "min", "max"} -> dtype
      [] OTHER -> "float64"

\* the position of c in the sequence cols
IndexOf(cols, c) == CHOOSE k \in DOMAIN cols : cols[k] = c

\* ------------------------------------------------------ _simple_aggregate
SimpleFunctions == {"sum", "mean", "count", "max", "min"}

\* the (column, function) items of the loop that reach one of its branches
SimpleItems(df, aggregations) ==
    SelectSeq(aggregations.items,
              LAMBDA it : /\ HasCol(df, it[1])
                          /\ IsStr(it[2])
                          /\ it[2].s \in SimpleFunctions)

\* the key f"{col}_{agg_func}" an item of the loop sets
SimpleName(it) == it[1] \o "_" \o it[2].s
\* the item that sets the key c
ItemNamed(items, c) == items[CHOOSE k \in DOMAIN items : SimpleName(items[k]) = c]
\* the value it sets: df[col].sum() and the like
SimpleCell(df, it) == Reduce(Column(df, it[1]), df.dtypes[it[1]], it[2].s)

\* pd.DataFrame(result_dict) for the items of the loop that set a key
SimpleFrame(df, items) ==
    IF \E k \in DOMAIN items : Raised(SimpleCell(df, items[k]))
    THEN Raise("TypeError")
    ELSE IF items = << >> THEN EmptyFrame
    ELSE DataFrame(
           [k \in DOMAIN items |-> SimpleName(items[k])],
           [c \in {SimpleName(items[k]) : k \in DOMAIN items} |->
              ReduceDtype(df.dtypes[ItemNamed(items, c)[1]], ItemNamed(items, c)[2].s)],
           <<[c \in {SimpleName(items[k]) : k \in DOMAIN items} |->
                SimpleCell(df, ItemNamed(items, c))]>>)

_simple_aggregate(df, aggregations) ==
    IF ~IsItems(aggregations) THEN Raise("AttributeError")
    ELSE SimpleFrame(df, SimpleItems(df, aggregations))

\* --------------------------------------------------- _group_and_aggregate
\* the group key of a row: its cells under the grouping columns
KeyOf(row, group_cols) == [k \in DOMAIN group_cols |-> row[group_cols[k]]]

\* the keys in ascending order
SortedKeys(keys) == Permute(keys, SortPerm(keys, Len(keys), TRUE))

\* df.groupby(group_cols): the distinct keys in ascending order (sort=True)
GroupKeys(df, group_cols) ==
    SortedKeys(Distinct([k \in DOMAIN df.rows |-> KeyOf(df.rows[k], group_cols)]))

\* the rows of the group with that key, in row order
GroupRows(df, group_cols, key) ==
    SelectSeq(df.rows, LAMBDA row : KeyOf(row, group_cols) = key)

\* agg_dict[col]: a list of function names is kept, a single one is wrapped
FunctionList(agg_func) ==
    IF IsList(agg_func) THEN agg_func.list ELSE <<agg_func.s>>

\* agg_dict as the sequence of its (column, function) pairs, in the order of
\* the columns of grouped.agg(agg_dict)
RECURSIVE AggPairs(_, _)
AggPairs(df, items) ==
    IF items = << >> THEN << >>
    ELSE (IF HasCol(df, Head(items)[1])
          THEN [k \in DOMAIN FunctionList(Head(items)[2]) |->
                  <<Head(items)[1], FunctionList(Head(items)[2])[k]>>]
          ELSE << >>)
         \o AggPairs(df, Tail(items))

\* the column name without the function: what agg gives for a function that
\* is not wrapped in a list
UnflattenedName(pair) == pair[1]

\* '_'.join(col) for the two-level column (column, function)
FlatName(pair) == pair[1] \o "_" \o pair[2]
FlatNames(pairs) == [k \in DOMAIN pairs |-> FlatName(pairs[k])]
\* the pair behind the flattened column c
PairNamed(pairs, c) == pairs[CHOOSE k \in DOMAIN pairs : FlatName(pairs[k]) = c]

\* one cell of grouped.agg(agg_dict): the function of the pair over the cells
\* of its column in the group
GroupCell(df, members, pair) ==
    Reduce([k \in DOMAIN members |-> members[k][pair[1]]], df.dtypes[pair[1]], pair[2])

\* grouped.agg(agg_dict) with flattened columns, after reset_index()
AggFrame(df, group_cols, keys, pairs) ==
    DataFrame(
        group_cols \o FlatNames(pairs),
        [c \in Range(group_cols) \cup Range(FlatNames(pairs)) |->
           IF c \in Range(group_cols) THEN df.dtypes[c]
           ELSE ReduceDtype(df.dtypes[PairNamed(pairs, c)[1]], PairNamed(pairs, c)[2])],
        [g \in DOMAIN keys |->
           [c \in Range(group_cols) \cup Range(FlatNames(pairs)) |->
              IF c \in Range(group_cols) THEN keys[g][IndexOf(group_cols, c)]
              ELSE GroupCell(df, GroupRows(df, group_cols, keys[g]),
                             PairNamed(pairs, c))]])

\* grouped.size().reset_index(name='count')
SizeFrame(df, group_cols, keys) ==
    DataFrame(
        group_cols \o <<"count">>,
        [c \in Range(group_cols) \cup {"count"} |->
           IF c \in Range(group_cols) THEN df.dtypes[c] ELSE "int64"],
        [g \in DOMAIN keys |->
           [c \in Range(group_cols) \cup {"count"} |->
              IF c \in Range(group_cols) THEN keys[g][IndexOf(group_cols, c)]
              ELSE PyInt(Len(GroupRows(df, group_cols, keys[g])))]])

\* lines 286-293; agg raises on a function pandas does not know and on a
\* numeric function over a str column
AggregateGroups(df, group_cols, keys, pairs) ==
    IF pairs = << >> THEN SizeFrame(df, group_cols, keys)
    ELSE IF \E k \in DOMAIN pairs :
               \/ pairs[k][2] \notin AggFunctions
               \/ /\ df.dtypes[pairs[k][1]] # "int64"
                  /\ pairs[k][2] \in {"mean", "median", "std"}
    THEN Raise("TypeError")
    ELSE AggFrame(df, group_cols, keys, pairs)

\* lines 272-293
GroupBy(df, valid_group_cols, aggregations) ==
    IF valid_group_cols = << >> THEN df
    ELSE IF ~IsItems(aggregations) THEN Raise("AttributeError")
    ELSE AggregateGroups(df, valid_group_cols, GroupKeys(df, valid_group_cols),
                         AggPairs(df, aggregations.items))

_group_and_aggregate(df, group_by, aggregations) ==
    GroupBy(df, SelectSeq(group_by.list, LAMBDA col : HasCol(df, col)), aggregations)

\* ---------------------------------------------------------- _apply_sorting
\* the positions of the rows whose cell under column is (not) NaN
ValuedRows(df, column) ==
    SelectSeq([k \in DOMAIN df.rows |-> k], LAMBDA k : ~IsNaN(df.rows[k][column]))
NaNRows(df, column) ==
    SelectSeq([k \in DOMAIN df.rows |-> k], LAMBDA k : IsNaN(df.rows[k][column]))

\* the positions idx ordered by the cells under column, equal cells in their
\* original order
OrderBy(df, idx, column, ascending) ==
    Permute(idx, SortPerm([k \in DOMAIN idx |-> <<df.rows[idx[k]][column]>>],
                          Len(idx), ascending))

\* df.sort_values(by=column, ascending=ascending): NaN cells last
SortValues(df, column, ascending) ==
    Take(df, OrderBy(df, ValuedRows(df, column), column, ascending)
             \o NaNRows(df, column))

\* _apply_sorting that does not read `ascending`: always ascending
_apply_sorting_ascending(df, sort_config) ==
    IF ~IsDict(sort_config) THEN Raise("AttributeError")
    ELSE IF /\ "column" \in DOMAIN sort_config
            /\ sort_config.column # ""
            /\ HasCol(df, sort_config.column)
    THEN SortValues(df, sort_config.column, TRUE)
    ELSE df

_apply_sorting(df, sort_config) ==
    IF ~IsDict(sort_config) THEN Raise("AttributeError")
    ELSE IF /\ "column" \in DOMAIN sort_config
            /\ sort_config.column # ""
            /\ HasCol(df, sort_config.column)
    THEN SortValues(df, sort_config.column, Get(sort_config, "ascending", TRUE))
    ELSE df

\* ------------------------------------------------------------------- head
Min(a, b) == IF a < b THEN a ELSE b
Max(a, b) == IF a > b THEN a ELSE b

\* df.tail(n) where df.head(n) is meant: the last n rows
tail(df, n) ==
    Take(df, [k \in 1..(IF n >= 0 THEN Min(n, Len(df.rows))
                        ELSE Max(Len(df.rows) + n, 0)) |->
                k + Len(df.rows) - (IF n >= 0 THEN Min(n, Len(df.rows))
                                    ELSE Max(Len(df.rows) + n, 0))])

\* df.head(n): the first n rows, or all but the last -n rows when n < 0
head(df, n) ==
    Take(df, [k \in 1..(IF n >= 0 THEN Min(n, Len(df.rows))
                        ELSE Max(Len(df.rows) + n, 0)) |-> k])

\* ------------------------------------------------------- the table registry
\* self.dataframes: an insertion-ordered dict, as the sequence of its items
\* [name, df]
Keys(dataframes) == [k \in DOMAIN dataframes |-> dataframes[k].name]
HasTable(dataframes, name) == \E k \in DOMAIN dataframes : dataframes[k].name = name
Lookup(dataframes, name) ==
    dataframes[CHOOSE k \in DOMAIN dataframes : dataframes[k].name = name].df

\* ------------------------------------------- _execute_single_aggregation
\* one record of the logger
Log(level, event) == [level |-> level, event |-> event]

\* ResolveTable with the fallback on the table registered last
ResolveTableLast(dataframes, agg) ==
    LET requested_table == Get(agg, "table", PyNone)
        available_tables == Keys(dataframes)
    IN IF /\ Truthy(requested_table)
          /\ IsStr(requested_table)
          /\ HasTable(dataframes, requested_table.s)
       THEN [table_name |-> requested_table, log |-> Log("info", "exact_match")]
       ELSE [table_name |-> IF available_tables # << >>
                            THEN PyStr(available_tables[Len(available_tables)])
                            ELSE PyNone,
             log |-> IF Truthy(requested_table)
                     THEN Log("warning", "table_not_found_fallback")
                     ELSE Log("info", "no_table_specified")]

\* lines 119-134: the table the operation runs on (None when there is none) and
\* what is logged about the choice
ResolveTable(dataframes, agg) ==
    LET requested_table == Get(agg, "table", PyNone)
        available_tables == Keys(dataframes)
    IN IF /\ Truthy(requested_table)
          /\ IsStr(requested_table)
          /\ HasTable(dataframes, requested_table.s)
       THEN [table_name |-> requested_table, log |-> Log("info", "exact_match")]
       ELSE [table_name |-> IF available_tables # << >>
                            THEN PyStr(available_tables[1]) ELSE PyNone,
             log |-> IF Truthy(requested_table)
                     THEN Log("warning", "table_not_found_fallback")
                     ELSE Log("info", "no_table_specified")]

\* lines 144-145
Filtered(df, agg) ==
    IF "filters" \in DOMAIN agg THEN _apply_filters(df, agg.filters) ELSE df

\* the fields read under the names group_by and aggregate only
AggregatedStandardOnly(df, agg) ==
    LET group_by_field == Get(agg, "group_by", PyNone)
        aggregate_field == Get(agg, "aggregate", PyNone)
    IN IF Truthy(group_by_field) /\ Truthy(aggregate_field)
       THEN _group_and_aggregate(df, group_by_field, aggregate_field)
       ELSE IF Truthy(aggregate_field)
       THEN _simple_aggregate(df, aggregate_field)
       ELSE df

\* lines 149-161
Aggregated(df, agg) ==
    LET group_by_field == PyOr(Get(agg, "group_by", PyNone), Get(agg, "groupby", PyNone))
        aggregate_field == PyOr(Get(agg, "aggregate", PyNone),
                                Get(agg, "agg_functions", PyNone))
    IN IF Truthy(group_by_field) /\ Truthy(aggregate_field)
       THEN _group_and_aggregate(df, group_by_field, aggregate_field)
       ELSE IF Truthy(aggregate_field)
       THEN _simple_aggregate(df, aggregate_field)
       ELSE df

\* lines 164-175: a list applies its first entry, a dict is applied, anything
\* else is left as it is, with a warning
Sorted(result, agg) ==
    IF "sort" \notin DOMAIN agg THEN result
    ELSE IF IsList(agg.sort) /\ agg.sort.list # << >>
    THEN _apply_sorting(result, agg.sort.list[1])
    ELSE IF IsDict(agg.sort) THEN _apply_sorting(result, agg.sort)
    ELSE result

SortLog(agg) ==
    IF /\ "sort" \in DOMAIN agg
       /\ ~(IsList(agg.sort) /\ agg.sort.list # << >>)
       /\ ~IsDict(agg.sort)
    THEN <<Log("warning", "invalid_sort_config")>>
    ELSE << >>

\* lines 178-179; head(None) keeps every row, head of a str raises
Limited(result, agg) ==
    IF "limit" \notin DOMAIN agg \/ IsNone(agg.limit) THEN result
    ELSE IF ~IsInt(agg.limit) THEN Raise("TypeError")
    ELSE head(result, agg.limit.i)

\* lines 181-194
OperationSummary(result, agg) ==
    [data |-> result.rows,
     summary |-> [rows |-> Len(result.rows),
                  columns |-> result.cols,
                  operation |-> Get(agg, "type", "aggregation")]]

\* an except clause that logs and raises again
Reraised(logged, message) ==
    [result |-> Raise(message),
     log |-> logged \o <<Log("error", "error_in_single_aggregation")>>]

\* lines 196-200: the except clause, after the records logged so far
Caught(logged, message) ==
    [result |-> [error |-> message],
     log |-> logged \o <<Log("error", "error_in_single_aggregation")>>]

\* The try block, stage by stage: each operator is given what the stage before
\* it left, and is the rest of the block from there on.  [result, log]: what
\* is returned, and the records logged at warning level or above and about the
\* choice of the table.
AfterLimit(agg, logged, result) ==
    IF Raised(result) THEN Caught(logged, result.raise)
    ELSE [result |-> OperationSummary(result, agg), log |-> logged]

AfterSort(agg, logged, result) ==
    IF Raised(result) THEN Caught(logged, result.raise)
    ELSE AfterLimit(agg, logged, Limited(result, agg))

\* the stages after the aggregation in another order: the limit before the
\* sort
LimitBeforeSort(agg, logged, result) ==
    IF Raised(result) THEN Caught(logged, result.raise)
    ELSE IF Raised(Limited(result, agg)) THEN Caught(logged, "TypeError")
    ELSE AfterLimit(agg, logged \o SortLog(agg), Sorted(Limited(result, agg), agg))

AfterAggregate(agg, logged, result) ==
    IF Raised(result) THEN Caught(logged, result.raise)
    ELSE AfterSort(agg, logged \o SortLog(agg), Sorted(result, agg))

AfterFilter(agg, logged, df) ==
    IF Raised(df) THEN Caught(logged, df.raise)
    ELSE AfterAggregate(agg, logged, Aggregated(df, agg))

AfterResolve(dataframes, agg, chosen) ==
    IF ~Truthy(chosen.table_name) \/ ~HasTable(dataframes, chosen.table_name.s)
    THEN Caught(<<chosen.log>>, "No valid table found")
    ELSE AfterFilter(agg, <<chosen.log>>,
                     Filtered(Lookup(dataframes, chosen.table_name.s), agg))

_execute_single_aggregation(dataframes, agg) ==
    IF ~IsDict(agg)
    THEN [result |-> [error |-> "Expected aggregation to be a dictionary"],
          log |-> <<Log("error", "type_error")>>]
    ELSE AfterResolve(dataframes, agg, ResolveTable(dataframes, agg))

\* the registry with the frame under table_name replaced by df
Replaced(dataframes, table_name, df) ==
    [k \in DOMAIN dataframes |->
       IF dataframes[k].name = table_name THEN [name |-> table_name, df |-> df]
       ELSE dataframes[k]]

\* the registry had the filters of the operation worked on its own frame, the
\* copies of lines 139 and 243 not taken
FilteredInPlace(dataframes, agg) ==
    IF ~IsDict(agg) THEN dataframes
    ELSE IF \/ ~Truthy(ResolveTable(dataframes, agg).table_name)
            \/ ~HasTable(dataframes, ResolveTable(dataframes, agg).table_name.s)
    THEN dataframes
    ELSE IF Raised(Filtered(Lookup(dataframes, ResolveTable(dataframes, agg).table_name.s),
                            agg))
    THEN dataframes
    ELSE Replaced(dataframes, ResolveTable(dataframes, agg).table_name.s,
                  Filtered(Lookup(dataframes, ResolveTable(dataframes, agg).table_name.s),
                           agg))

\* self.dataframes after _execute_single_aggregation: the operation works on
\* self.dataframes[table_name].copy() (line 139), _apply_filters on df.copy()
\* (line 243), and df[mask], groupby().agg(), sort_values() and head() each
\* return a new frame
AfterOperation(dataframes, agg) == dataframes

\* self.dataframes after the steps k.. of _execute_table_operations, which
\* stop at a step that is no mapping
RECURSIVE AfterOperations(_, _, _)
AfterOperations(dataframes, operations, k) ==
    IF k > Len(operations) \/ ~IsDict(operations[k]) THEN dataframes
    ELSE AfterOperations(AfterOperation(dataframes, operations[k]), operations, k + 1)

\* line 205
_execute_operation(dataframes, operation) ==
    _execute_single_aggregation(dataframes, operation)

\* ---------------------------------------------- _execute_table_operations
\* results and log after the step k, given what the steps after it give
StepsFrom(k, op_result, rest) ==
    [result |-> IF Raised(rest.result) THEN rest.result
                ELSE (("step_" \o ToString(k)) :> op_result.result) @@ rest.result,
     log |-> <<op_result.log>> \o rest.log]

\* the steps chained: each step works on what the filters of the steps
\* before it left of the tables
RECURSIVE ChainedSteps(_, _, _, _)
ChainedSteps(dataframes, current_df, operations, k) ==
    IF k > Len(operations) THEN [result |-> << >>, log |-> << >>]
    ELSE IF ~IsDict(operations[k]) THEN [result |-> Raise("TypeError"), log |-> << >>]
    ELSE StepsFrom(k,
                   _execute_single_aggregation(
                       dataframes, ("df" :> current_df) @@ operations[k]),
                   ChainedSteps(FilteredInPlace(dataframes, operations[k]),
                                current_df, operations, k + 1))

\* [result, log] of the steps k..Len(operations); {**op, 'df': current_df}
\* raises on an op that is no mapping, and the steps after it are not run
RECURSIVE TableSteps(_, _, _, _)
TableSteps(dataframes, current_df, operations, k) ==
    IF k > Len(operations) THEN [result |-> << >>, log |-> << >>]
    ELSE IF ~IsDict(operations[k]) THEN [result |-> Raise("TypeError"), log |-> << >>]
    ELSE StepsFrom(k,
                   _execute_single_aggregation(
                       dataframes, ("df" :> current_df) @@ operations[k]),
                   TableSteps(dataframes, current_df, operations, k + 1))

_execute_table_operations(dataframes, df, operations) ==
    TableSteps(dataframes, df, operations, 1)

\* -------------------------------------------------- _execute_flexible_plan
\* the quantile k/4 of the ascending ints xs (linear interpolation)
Quartile(xs, k) ==
    IF ((Len(xs) - 1) * k) % 4 = 0 THEN Frac(xs[((Len(xs) - 1) * k) \div 4 + 1], 1)
    ELSE Frac(4 * xs[((Len(xs) - 1) * k) \div 4 + 1]
              + (((Len(xs) - 1) * k) % 4)
                * (xs[((Len(xs) - 1) * k) \div 4 + 2] - xs[((Len(xs) - 1) * k) \div 4 + 1]),
              4)

DescribeIndex == <<"count", "mean", "std", "min", "25%", "50%", "75%", "max">>

\* one cell of describe(): the statistic of the ascending ints xs
DescribeCell(xs, statistic) ==
    CASE statistic = "count" -> Frac(Len(xs), 1)
      [] Len(xs) = 0 -> NaN
      [] statistic = "mean" -> Frac(SeqSum(xs), Len(xs))
      [] statistic = "std" -> StdOfInts(xs)
      [] statistic = "min" -> Frac(xs[1], 1)
      [] statistic = "25%" -> Quartile(xs, 1)
      [] statistic = "50%" -> Quartile(xs, 2)
      [] statistic = "75%" -> Quartile(xs, 3)
      [] statistic = "max" -> Frac(xs[Len(xs)], 1)

\* df[numeric_cols].describe()
describe(df, numeric_cols) ==
    DataFrame(numeric_cols, [c \in Range(numeric_cols) |-> "float64"],
              [k \in DOMAIN DescribeIndex |->
                 [c \in Range(numeric_cols) |->
                    DescribeCell(IntsOf(SortedCells(Column(df, c))), DescribeIndex[k])]])

\* df.select_dtypes(include=[float, int]).columns
NumericCols(df) == SelectSeq(df.cols, LAMBDA c : df.dtypes[c] \in {"int64", "float64"})

\* lines 232-239
FlexibleResult(result_data) ==
    [data |-> result_data.rows,
     summary |-> [rows |-> Len(result_data.rows),
                  columns |-> result_data.cols,
                  operation |-> "flexible_execution"]]

\* the plan run against the last table of the registry
FlexibleLastTable(dataframes, plan) ==
    IF dataframes = << >> THEN Raise("list index out of range")
    ELSE FlexibleResult(
           IF /\ DOMAIN plan \cap {"group_by", "aggregate", "filters"} = {}
              /\ NumericCols(dataframes[Len(dataframes)].df) # << >>
           THEN describe(dataframes[Len(dataframes)].df,
                         NumericCols(dataframes[Len(dataframes)].df))
           ELSE dataframes[Len(dataframes)].df)

\* lines 218-239
_execute_flexible_plan(dataframes, plan) ==
    IF dataframes = << >> THEN Raise("list index out of range")
    ELSE FlexibleResult(
           IF /\ DOMAIN plan \cap {"group_by", "aggregate", "filters"} = {}
              /\ NumericCols(dataframes[1].df) # << >>
           THEN describe(dataframes[1].df, NumericCols(dataframes[1].df))
           ELSE dataframes[1].df)

\* ---------------------------------------------------------------- inputs
\* The relations a call may be given: the first n rows of two row pools, the
\* first of which starts with the three rows of the sales table of the
\* end-to-end scenario.
SalesPool ==
    <<[loc |-> PyStr("NYC"), amt |-> PyInt(100)],
      [loc |-> PyStr("NYC"), amt |-> PyInt(200)],
      [loc |-> PyStr("LA"), amt |-> PyInt(50)],
      [loc |-> PyStr("LA"), amt |-> PyInt(100)],
      [loc |-> PyStr("SF"), amt |-> PyInt(50)]>>
StaffPool ==
    <<[loc |-> PyStr("LA"), shift |-> PyInt(1), qty |-> PyInt(2)],
      [loc |-> PyStr("SF"), shift |-> PyInt(1), qty |-> PyInt(1)],
      [loc |-> PyStr("LA"), shift |-> PyInt(2), qty |-> PyInt(2)],
      [loc |-> PyStr("LA"), shift |-> PyInt(1), qty |-> PyInt(3)],
      [loc |-> PyStr("SF"), shift |-> PyInt(2), qty |-> PyInt(3)]>>
Sales(n) ==
    DataFrame(<<"loc", "amt">>, [loc |-> "object", amt |-> "int64"],
              SubSeq(SalesPool, 1, Min(n, Len(SalesPool))))
Staff(n) ==
    DataFrame(<<"loc", "shift", "qty">>,
              [loc |-> "object", shift |-> "int64", qty |-> "int64"],
              SubSeq(StaffPool, 1, Min(n, Len(StaffPool))))
\* a table without a numeric column: the locations of the sales
Notes(n) ==
    DataFrame(<<"loc">>, [loc |-> "object"],
              [k \in 1..Min(n, Len(SalesPool)) |-> [loc |-> SalesPool[k].loc]])
Item(name, df) == [name |-> name, df |-> df]

Registries ==
    {<< >>}
    \cup UNION {{<<Item("sales", Sales(n))>>,
                 <<Item("staff", Staff(n))>>,
                 <<Item("sales", Sales(n)), Item("staff", Staff(n))>>,
                 <<Item("staff", Staff(n)), Item("sales", Sales(n))>>,
                 <<Item("notes", Notes(n))>>} : n \in 0..MaxRows}

\* the dicts with the keys of a and of b
Merge(a, b) == a @@ b
Product(A, B) == {Merge(a, b) : a \in A, b \in B}
\* the key is absent, or present with one of the values
Optional(key, values) == {<< >>} \cup {(key :> v) : v \in values}

TableValues == {PyStr("sales"), PyStr("staff"), PyStr("unknown_table"), PyStr("")}

FilterColumns == {"amt", "loc", "region"}
\* the values a comparison is given, and the value lists of `in`
FilterValues == {PyInt(75), PyInt(100), PyStr("NYC")}
FilterValueLists == {List(<<PyInt(100), PyStr("LA")>>), List(<< >>)}
Predicates ==
    {[column |-> c, operator |-> o, value |-> v] :
        c \in FilterColumns, o \in FilterOperators \ {"in"}, v \in FilterValues}
    \cup {[column |-> c, operator |-> "in", value |-> v] :
            c \in FilterColumns, v \in FilterValueLists \cup {PyInt(100)}}
    \cup {[column |-> c, value |-> v] : c \in FilterColumns, v \in FilterValues}
    \cup {[column |-> c, operator |-> o] : c \in FilterColumns, o \in {"!=", ">="}}
    \cup {[column |-> "amt", operator |-> "like", value |-> PyInt(100)]}
\* the predicates that are combined in lists of two
PairedPredicates ==
    {[column |-> "amt", operator |-> ">", value |-> PyInt(75)],
     [column |-> "loc", operator |-> "==", value |-> PyStr("NYC")],
     [column |-> "region", operator |-> "==", value |-> PyStr("NYC")],
     [column |-> "amt", operator |-> "<", value |-> PyStr("NYC")]}
FilterLists ==
    {<< >>} \cup {<<f>> : f \in Predicates}
    \cup {<<f, g>> : f \in PairedPredicates, g \in PairedPredicates}

GroupLists == {List(<< >>), List(<<"loc">>), List(<<"region">>),
               List(<<"region", "loc">>), List(<<"loc", "shift">>)}
GroupChoices ==
    Optional("group_by", GroupLists) \cup {("groupby" :> List(<<"loc">>))}

SingleFunctions == {PyStr(f) : f \in AggFunctions}
ListedFunctions == {List(<<"sum">>), List(<<"sum", "mean">>), List(<<"count", "max">>),
                    List(<<"std", "median", "min">>)}
AggregateMaps ==
    {Items(<<<<"amt", f>>>>) : f \in SingleFunctions \cup ListedFunctions}
    \cup {Items(<<<<"qty", PyStr("sum")>>>>),
          Items(<<<<"profit", PyStr("sum")>>>>),
          Items(<<<<"profit", List(<<"sum">>)>>, <<"amt", List(<<"max">>)>>>>),
          Items(<<<<"amt", PyStr("sum")>>, <<"qty", PyStr("max")>>>>),
          Items(<<<<"amt", PyStr("total")>>>>),
          Items(<< >>)}
AggregateChoices ==
    Optional("aggregate", AggregateMaps)
    \cup {("agg_functions" :> Items(<<<<"amt", List(<<"sum">>)>>>>))}
\* aggregate maps over a str column, for Operations that do not group by it
UngroupedMaps ==
    {Items(<<<<"loc", PyStr("count")>>, <<"amt", PyStr("mean")>>>>),
     Items(<<<<"loc", PyStr("mean")>>>>),
     Items(<<<<"loc", PyStr("max")>>>>)}

SortConfigs ==
    {[column |-> c, ascending |-> a] : c \in {"amt", "amt_sum", "loc"}, a \in BOOLEAN}
    \cup {[column |-> "amt"], [ascending |-> FALSE]}
SortFieldValues ==
    SortConfigs \cup {List(<<[column |-> "amt", ascending |-> FALSE],
                             [column |-> "loc", ascending |-> TRUE]>>),
                      List(<<[column |-> "loc", ascending |-> TRUE],
                             [column |-> "amt", ascending |-> FALSE]>>),
                      List(<< >>), PyNone}

\* limit: N for every int N in -(MaxRows + 1) .. MaxRows + 1, a str and None
LimitValues ==
    {PyInt(n) : n \in (0 - MaxRows - 1)..(MaxRows + 1)} \cup {PyStr("10"), PyNone}

\* an entry of a plan list that is no dict
NotADict == PyStr("top sales")

\* the Operations a plan may carry, one family per stage
ResolutionOps == Product(Optional("table", TableValues), Optional("type", {"ranking"}))
FilterOps == Product(Optional("table", {PyStr("sales")}),
                     {("filters" :> fl) : fl \in FilterLists})
AggregationOps ==
    Product(GroupChoices, AggregateChoices)
    \cup {("aggregate" :> m) : m \in UngroupedMaps}
\* the Operations that are sorted and limited: the table as it is, a grouped
\* and an ungrouped aggregation
OrderedBases ==
    {<< >>,
     [group_by |-> List(<<"loc">>), aggregate |-> Items(<<<<"amt", List(<<"sum">>)>>>>)],
     [aggregate |-> Items(<<<<"amt", PyStr("sum")>>>>)]}
OrderingOps ==
    Product(OrderedBases,
            Product(Optional("sort", SortFieldValues), Optional("limit", {PyInt(1), PyInt(2)}))
            \cup Product(Optional("sort", {[column |-> "amt", ascending |-> FALSE]}),
                         Optional("limit", LimitValues)))
\* the Operations that go through every stage: filters, grouping and
\* aggregation, a sort by a column of the result (amt_sum) or of the table
\* only (amt), and a limit
StagedOps ==
    Product({[table |-> PyStr("sales"),
              group_by |-> List(<<"loc">>),
              aggregate |-> Items(<<<<"amt", List(<<"sum">>)>>>>)]},
            Product(Optional("filters",
                             {<<[column |-> "amt", operator |-> ">", value |-> PyInt(75)]>>,
                              <<[column |-> "amt", operator |-> "<", value |-> PyInt(75)]>>}),
                    Product(Optional("sort",
                                     {[column |-> "amt_sum", ascending |-> FALSE],
                                      [column |-> "amt_sum", ascending |-> TRUE],
                                      [column |-> "amt", ascending |-> FALSE]}),
                            Optional("limit", {PyInt(1)}))))
Operations ==
    ResolutionOps \cup FilterOps \cup AggregationOps \cup OrderingOps \cup StagedOps

\* the Operations of the plans with several entries: one that succeeds, one
\* that raises, one that takes the fallback, one that is no dict
SiblingOps ==
    {[table |-> PyStr("sales"), limit |-> PyInt(1)],
     [table |-> PyStr("staff"),
      filters |-> <<[column |-> "loc", operator |-> ">", value |-> PyInt(75)]>>],
     [table |-> PyStr("unknown_table"),
      aggregate |-> Items(<<<<"amt", PyStr("sum")>>>>)],
     NotADict}

\* the sequences over S of the lengths from lo to hi
RECURSIVE SeqsOfLen(_, _)
SeqsOfLen(S, n) ==
    IF n = 0 THEN {<< >>}
    ELSE {Append(q, e) : q \in SeqsOfLen(S, n - 1), e \in S}
SeqsBetween(S, lo, hi) == UNION {SeqsOfLen(S, n) : n \in lo..hi}

\* two Operations on one table, one that reads all of its rows and one that
\* filters rows out, in both orders
WholeOp == [table |-> PyStr("sales")]
PartOp ==
    [table |-> PyStr("sales"),
     filters |-> <<[column |-> "amt", operator |-> ">", value |-> PyInt(75)]>>]
OrderLists == {<<WholeOp, PartOp>>, <<PartOp, WholeOp>>}

\* the lists of a plan: no entry, any one Operation, or several siblings
OperationLists ==
    {<< >>} \cup {<<op>> : op \in Operations \cup {NotADict}}
    \cup SeqsBetween(SiblingOps, 2, MaxOps) \cup OrderLists
\* the lists of the plans in which the position of an entry matters
SiblingLists == SeqsBetween(SiblingOps, 0, MaxOps)

\* the `tables` mappings of a plan: insertion-ordered, as [name, steps] items
TableNames == {"sales", "staff", "ghost"}
StepLists ==
    SiblingLists \cup {<<op>> : op \in ResolutionOps \cup OrderedBases} \cup OrderLists
TableMappings ==
    {<< >>}
    \cup {<<[name |-> t, steps |-> l]>> : t \in TableNames, l \in StepLists}
    \cup {<<[name |-> tu[1], steps |-> l], [name |-> tu[2], steps |-> m]>> :
            tu \in {p \in TableNames \X TableNames : p[1] # p[2]},
            l \in SiblingLists,
            m \in {<< >>, <<[limit |-> PyInt(1)]>>, <<NotADict>>}}

\* what a plan carries under the keys that the dispatch does not reach
Decoys ==
    {<< >>,
     [operations |-> <<[table |-> PyStr("sales")]>>],
     [tables |-> <<[name |-> "sales", steps |-> << >>]>>],
     [operations |-> << >>, tables |-> << >>]}

Plans ==
    {Merge(("aggregations" :> l), d) : l \in OperationLists, d \in {<< >>}}
    \cup {Merge(("aggregations" :> l), d) : l \in SiblingLists, d \in Decoys}
    \cup {Merge(("operations" :> l), d) :
            l \in SiblingLists \cup {<<op>> : op \in ResolutionOps},
            d \in {<< >>, [tables |-> <<[name |-> "sales", steps |-> << >>]>>]}}
    \cup {("tables" :> m) : m \in TableMappings}
    \cup ResolutionOps \cup OrderedBases
    \cup {("filters" :> <<f>>) : f \in PairedPredicates}
    \cup {PyNone}

\* the calls made on an executor that has already returned from one: a plan
\* of each branch, one that fails as a batch, and two registries
LaterPlans ==
    {PyNone, << >>,
     [aggregations |-> <<[table |-> PyStr("sales"), limit |-> PyInt(1)], NotADict>>],
     [operations |-> <<[aggregate |-> Items(<<<<"amt", PyStr("sum")>>>>)]>>],
     [tables |-> <<[name |-> "sales", steps |-> <<[limit |-> PyInt(1)], NotADict>>]>>],
     [tables |-> <<[name |-> "sales", steps |-> <<[limit |-> PyInt(1)]>>]>>]}
LaterRegistries == {<< >>, <<Item("sales", Sales(1))>>}

\* ------------------------------------------------- metadata_extractor.py
\* A str that the profiler takes apart (a file name, a table name) is the
\* sequence of its characters.  The characters in the order of their code
\* points:
Ascii ==
    <<" ", "-", ".", "0", "1", "2", "3", "4", "5", "6", "7", "8", "9",
      "A", "B", "C", "D", "E", "F", "G", "H", "I", "J", "K", "L", "M",
      "N", "O", "P", "Q", "R", "S", "T", "U", "V", "W", "X", "Y", "Z", "_",
      "a", "b", "c", "d", "e", "f", "g", "h", "i", "j", "k", "l", "m",
      "n", "o", "p", "q", "r", "s", "t", "u", "v", "w", "x", "y", "z">>
CodePoint(ch) == CHOOSE k \in DOMAIN Ascii : Ascii[k] = ch
UpperCase == CodePoint("A")..CodePoint("Z")
LowerCase == CodePoint("a")..CodePoint("z")

\* [a-zA-Z0-9]
IsAlnum(ch) ==
    \/ CodePoint(ch) \in CodePoint("0")..CodePoint("9")
    \/ CodePoint(ch) \in UpperCase
    \/ CodePoint(ch) \in LowerCase

\* str.lower()
lower(str) ==
    [k \in DOMAIN str |->
       IF CodePoint(str[k]) \in UpperCase
       THEN Ascii[CodePoint(str[k]) - CodePoint("A") + CodePoint("a")]
       ELSE str[k]]

\* a < b for two str
RECURSIVE StrLess(_, _)
StrLess(a, b) ==
    IF b = << >> THEN FALSE
    ELSE IF a = << >> THEN TRUE
    ELSE IF Head(a) # Head(b) THEN CodePoint(Head(a)) < CodePoint(Head(b))
    ELSE StrLess(Tail(a), Tail(b))

\* file_name.rsplit('.', 1)[0]: up to the last '.', all of it without one
BaseName(file_name) ==
    IF \E k \in DOMAIN file_name : file_name[k] = "."
    THEN SubSeq(file_name, 1,
                (CHOOSE k \in DOMAIN file_name :
                    /\ file_name[k] = "."
                    /\ \A j \in DOMAIN file_name : j > k => file_name[j] # ".") - 1)
    ELSE file_name

\* re.sub(r'[^a-zA-Z0-9]+', '_', base): each run of other characters becomes
\* one '_'
RECURSIVE Underscored(_)
Underscored(base) ==
    IF base = << >> THEN << >>
    ELSE IF IsAlnum(base[Len(base)])
    THEN Append(Underscored(SubSeq(base, 1, Len(base) - 1)), base[Len(base)])
    ELSE IF Len(base) > 1 /\ ~IsAlnum(base[Len(base) - 1])
    THEN Underscored(SubSeq(base, 1, Len(base) - 1))
    ELSE Append(Underscored(SubSeq(base, 1, Len(base) - 1)), "_")

\* lines 6-9
normalize_table_name(file_name) == lower(Underscored(BaseName(file_name)))

\* a null cell: NaN or None
IsNull(c) == IsNaN(c) \/ IsNone(c)
\* series.isnull().any()
AnyNull(vals) == \E k \in DOMAIN vals : IsNull(vals[k])
\* series.dropna()
dropna(vals) == SelectSeq(vals, LAMBDA c : ~IsNull(c))
\* the number of distinct values of a series, a null counted as a value
NuniqueWithNulls(vals) == Len(Distinct(vals))
\* series.nunique(dropna=True)
nunique(vals) == Len(Distinct(dropna(vals)))
\* series.is_unique: no value twice, a null counted as a value
is_unique(vals) == Len(Distinct(vals)) = Len(vals)

\* lines 17-24
LlmType(dtype) ==
    CASE dtype = "int64" -> "int"
      [] dtype = "float64" -> "float"
      [] dtype = "datetime64[ns]" -> "datetime"
      [] OTHER -> "string"

\* series.unique()[:5]
SampleSize == 5
FirstOf(vals, n) == SubSeq(vals, 1, Min(n, Len(vals)))

\* lines 28-32: series.min() or series.max(), which skip nulls; None for a
\* string column and for a column of nulls only
Extreme(vals, dtype, which) ==
    IF LlmType(dtype) = "string" \/ dropna(vals) = << >> THEN PyNone
    ELSE IF which = "min" THEN Least(dropna(vals))
    ELSE Greatest(dropna(vals))

\* lines 14-43: the metadata of one column
ColumnMeta(df, col) ==
    [column_name |-> col,
     data_type |-> LlmType(df.dtypes[col]),
     nullable |-> AnyNull(Column(df, col)),
     unique_count |-> nunique(Column(df, col)),
     sample_values |-> FirstOf(Distinct(dropna(Column(df, col))), SampleSize),
     min_value |-> Extreme(Column(df, col), df.dtypes[col], "min"),
     max_value |-> Extreme(Column(df, col), df.dtypes[col], "max"),
     distinct_value_ratio |->
        IF Len(df.rows) > 0 THEN Frac(nunique(Column(df, col)), Len(df.rows))
        ELSE PyInt(0)]

\* lines 11-44
get_column_metadata(df) == [k \in DOMAIN df.cols |-> ColumnMeta(df, df.cols[k])]

\* lines 46-53
get_file_metadata(file_name, df) ==
    [file_name |-> file_name,
     table_name |-> normalize_table_name(file_name),
     row_count |-> Len(df.rows),
     column_count |-> Len(df.cols),
     columns |-> get_column_metadata(df)]

\* lines 55-58
get_sample_data(df, n_head, n_tail) ==
    [head |-> head(df, n_head).rows,
     tail |-> SubSeq(df.rows, Max(Len(df.rows) - n_tail, 0) + 1, Len(df.rows))]

\* every column without a repeated value, a column with nulls among them
UniqueColumns(df) == SelectSeq(df.cols, LAMBDA col : is_unique(Column(df, col)))

\* lines 60-65
find_primary_key_candidates(df) ==
    SelectSeq(df.cols,
              LAMBDA col : is_unique(Column(df, col)) /\ ~AnyNull(Column(df, col)))

\* a bool cell
PyBool(b) == [b |-> b]
IsBool(c) == "b" \in DOMAIN c

\* the value a cell is in a Python set: an int, the float equal to it and the
\* bool equal to it (True == 1, False == 0) are one element
SetValue(c) ==
    CASE IsInt(c) -> Frac(c.i, 1)
      [] IsBool(c) -> Frac(IF c.b THEN 1 ELSE 0, 1)
      [] OTHER -> c
\* set(df[col].dropna().unique())
ValueSet(df, col) == {SetValue(c) : c \in Range(dropna(Column(df, col)))}

\* the concatenation of the sequences of a sequence
RECURSIVE Flat(_)
Flat(seqs) == IF seqs = << >> THEN << >> ELSE Head(seqs) \o Flat(Tail(seqs))

\* the columns of df2 whose values the values vals1 are a subset of, the
\* comparison of the sizes left out
SupersetCols(vals1, df2) ==
    SelectSeq(df2.cols,
              LAMBDA col2 : /\ vals1 # {}
                            /\ ValueSet(df2, col2) # {}
                            /\ vals1 \subseteq ValueSet(df2, col2))

\* line 80: the columns of df2 whose values the values vals1 are a strict
\* subset of
ReferencedCols(vals1, df2) ==
    SelectSeq(df2.cols,
              LAMBDA col2 : /\ vals1 # {}
                            /\ ValueSet(df2, col2) # {}
                            /\ vals1 \subseteq ValueSet(df2, col2)
                            /\ Cardinality(vals1) < Cardinality(ValueSet(df2, col2)))

\* line 81: (col1, f"{t2}.{col2}") for each of the columns, the formatted
\* str kept as its three parts
ReferencesIn(col1, t2, cols) == [k \in DOMAIN cols |-> <<col1, <<t2, ".", cols[k]>>>>]

\* lines 72-82: the candidates of one column of the table t1
ReferencesOf(dfs, t1, vals1, col1) ==
    IF vals1 = {} THEN << >>
    ELSE Flat([k \in DOMAIN dfs |->
                 IF dfs[k].name = t1 THEN << >>
                 ELSE ReferencesIn(col1, dfs[k].name, ReferencedCols(vals1, dfs[k].df))])

\* lines 67-83: a dict, as the sequence of its items [name, candidates]
find_foreign_key_candidates(dfs) ==
    [k \in DOMAIN dfs |->
       [name |-> dfs[k].name,
        candidates |->
           Flat([j \in DOMAIN dfs[k].df.cols |->
                   ReferencesOf(dfs, dfs[k].name,
                                ValueSet(dfs[k].df, dfs[k].df.cols[j]),
                                dfs[k].df.cols[j])])]]

\* lines 92-94: the common columns of one dtype; `order` is the order in
\* which the set of the common column names is iterated
CommonCols(df1, df2, order) ==
    SelectSeq(order, LAMBDA col : /\ HasCol(df1, col)
                                  /\ HasCol(df2, col)
                                  /\ df1.dtypes[col] = df2.dtypes[col])

\* line 95: the entries of one pair of tables
JoinableOf(t1, df1, t2, cols) ==
    [k \in DOMAIN cols |-> <<<<t1, ".", cols[k]>>, <<t2, ".", cols[k]>>, df1.dtypes[cols[k]]>>]

\* lines 85-96
find_joinable_columns(dfs, order) ==
    Flat([k \in DOMAIN dfs |->
            Flat([j \in DOMAIN dfs |->
                    IF ~StrLess(dfs[k].name, dfs[j].name) THEN << >>
                    ELSE JoinableOf(dfs[k].name, dfs[k].df, dfs[j].name,
                                    CommonCols(dfs[k].df, dfs[j].df, order))])])

\* tables[key] = meta on an insertion-ordered dict: a key that is there keeps
\* its place and takes the new value
SetItem(tables, key, meta) ==
    IF \E k \in DOMAIN tables : tables[k].name = key
    THEN [k \in DOMAIN tables |->
            IF tables[k].name = key THEN [name |-> key, meta |-> meta] ELSE tables[k]]
    ELSE Append(tables, [name |-> key, meta |-> meta])

\* lines 105-107: the metadata of one file
TableMeta(file_name, df) ==
    [sample_data |-> get_sample_data(df, SampleSize, SampleSize),
     primary_key_candidates |-> find_primary_key_candidates(df)]
    @@ get_file_metadata(file_name, df)

\* ------------------------------------------------ inputs of the profiler
\* The rows the profiled tables are made of, as a CSV file gives them: an id
\* that may be missing and a name that may be missing
ProfilePool ==
    {[id |-> PyInt(1), name |-> PyStr("LA")],
     [id |-> PyInt(2), name |-> PyStr("NYC")],
     [id |-> NaN, name |-> PyStr("LA")],
     [id |-> PyInt(1), name |-> NaN],
     [id |-> PyInt(3), name |-> PyStr("LA")]}

\* the dtype pandas gives a column of these cells: ints with a missing value
\* are float64, bools with a missing value and no cell at all are object
InferredDtype(vals) ==
    CASE vals = << >> -> "object"
      [] \A k \in DOMAIN vals : IsInt(vals[k]) -> "int64"
      [] \A k \in DOMAIN vals : IsBool(vals[k]) -> "bool"
      [] \A k \in DOMAIN vals : IsInt(vals[k]) \/ IsNaN(vals[k]) -> "float64"
      [] OTHER -> "object"
\* the cell as a cell of a column of that dtype
AsDtype(c, dtype) == IF dtype = "float64" /\ IsInt(c) THEN Frac(c.i, 1) ELSE c

\* the frame of the rows
Frame(cols, rows) ==
    DataFrame(cols,
              [c \in Range(cols) |-> InferredDtype([k \in DOMAIN rows |-> rows[k][c]])],
              [k \in DOMAIN rows |->
                 [c \in Range(cols) |->
                    AsDtype(rows[k][c],
                            InferredDtype([j \in DOMAIN rows |-> rows[j][c]]))]])

ProfiledFrames == {Frame(<<"id", "name">>, rows) : rows \in SeqsBetween(ProfilePool, 0, MaxRows)}

\* two tables with a column of flags, one of which is missing in the second
FlagFrames ==
    {Frame(<<"id", "flag">>, <<[id |-> PyInt(1), flag |-> PyBool(TRUE)],
                               [id |-> PyInt(2), flag |-> PyBool(FALSE)]>>),
     Frame(<<"id", "flag">>, <<[id |-> PyInt(1), flag |-> PyBool(TRUE)],
                               [id |-> PyInt(2), flag |-> NaN]>>)}

\* the tables a profiled table is paired with: one with both ids, one with an
\* id only that is missing once, one without rows, one without a name column
PairedFrames ==
    {Frame(<<"id", "name">>, <<[id |-> PyInt(1), name |-> PyStr("LA")],
                               [id |-> PyInt(2), name |-> PyStr("NYC")]>>),
     Frame(<<"id", "name">>, <<[id |-> PyInt(1), name |-> PyStr("LA")],
                               [id |-> NaN, name |-> PyStr("LA")]>>),
     Frame(<<"id", "name">>, << >>),
     Frame(<<"id">>, <<[id |-> PyInt(1)], [id |-> PyInt(2)]>>)}
    \cup FlagFrames

OrdersCsv == <<"o", "r", "d", "e", "r", "s", ".", "c", "s", "v">>
OrdersUpper == <<"O", "r", "d", "e", "r", "s", ".", "C", "S", "V">>
OrderItems == <<"o", "r", "d", "e", "r", " ", "-", " ", "i", "t", "e", "m", "s", ".", "v", "2", ".", "c", "s", "v">>
ItemsBare == <<"i", "t", "e", "m", "s">>
FileNames == {OrdersCsv, OrdersUpper, OrderItems, ItemsBare}
FileNamePairs == {<<OrdersCsv, ItemsBare>>, <<OrdersCsv, OrdersUpper>>, <<OrderItems, OrdersCsv>>}

\* the dicts {file_name: DataFrame} the profiler is given
FileSets ==
    {<< >>}
    \cup {<<Item(n, df)>> : n \in FileNames, df \in ProfiledFrames}
    \cup {<<Item(p[1], df), Item(p[2], other)>> :
            p \in FileNamePairs, df \in ProfiledFrames, other \in PairedFrames}
    \cup {<<Item(p[1], other), Item(p[2], df)>> :
            p \in FileNamePairs, df \in PairedFrames, other \in PairedFrames}

\* the calls made after a call has returned
LaterFileSets == {<< >>, <<Item(OrdersCsv, Frame(<<"id", "name">>, << >>))>>}

\* the orders in which a set of column names may be iterated
ColumnOrders == {<<"id", "name", "flag">>, <<"flag", "name", "id">>}

\* ------------------------------------------------------------------ state
VARIABLES
    self_dataframes,  \* self.dataframes
    self_results,     \* self.results
    pc,               \* where execute_aggregation_plan is: "idle" between calls
    plan,             \* the plan of the call
    results,          \* the local results of _parse_and_execute
    cursor,           \* the position of the loop of _parse_and_execute
    exc,              \* the exception that left _parse_and_execute, or None
    response,         \* what the last call returned, None before the first
    log,              \* what the call logged: one sequence of records per
                      \* _execute_single_aggregation, in call order
    last_return,      \* how the call before this one on the same executor
                      \* ended, None when there was none
    file_dfs,         \* the file_dfs of extract_csvs_metadata
    tables,           \* its local `tables`
    file_cursor,      \* the position of its loop over file_dfs.items()
    profiler_pc,      \* where extract_csvs_metadata is: "idle" between calls
    metadata          \* what the last call of it returned, None before the first

executor_vars ==
    <<self_dataframes, self_results, pc, plan, results, cursor, exc, response, log,
      last_return>>
profiler_vars == <<file_dfs, tables, file_cursor, profiler_pc, metadata>>
vars == <<executor_vars, profiler_vars>>

\* __init__, lines 16-19; no call of the profiler has been made
Init ==
    /\ self_dataframes = << >>
    /\ self_results = << >>
    /\ pc = "idle"
    /\ plan = PyNone
    /\ results = << >>
    /\ cursor = 0
    /\ exc = PyNone
    /\ response = PyNone
    /\ log = << >>
    /\ last_return = PyNone
    /\ file_dfs = << >>
    /\ tables = << >>
    /\ file_cursor = 0
    /\ profiler_pc = "idle"
    /\ metadata = PyNone

\* the branches tested in another order: `operations` before `aggregations`
DispatchOperationsFirst(p) ==
    CASE IsNone(p) -> "except"
      [] "operations" \in DOMAIN p -> "operations"
      [] "aggregations" \in DOMAIN p -> "aggregations"
      [] "tables" \in DOMAIN p -> "tables"
      [] OTHER -> "flexible"

\* lines 78-100: the branch a plan takes; `in` raises on a plan that is None
Dispatch(p) ==
    CASE IsNone(p) -> "except"
      [] "aggregations" \in DOMAIN p -> "aggregations"
      [] "operations" \in DOMAIN p -> "operations"
      [] "tables" \in DOMAIN p -> "tables"
      [] OTHER -> "flexible"

\* the list or mapping the loop of a branch runs over
Entries(p, branch) ==
    CASE branch = "aggregations" -> p.aggregations
      [] branch = "operations" -> p.operations
      [] branch = "tables" -> p.tables
      [] OTHER -> << >>

\* where the loop of a branch goes after its entry k
AfterEntry(p, branch, k) == IF k >= Len(Entries(p, branch)) THEN "return" ELSE branch

\* how a call ended: with which keys in its results, or as a failure
Ended(r) ==
    CASE IsNone(r) -> PyNone
      [] r.success -> [success |-> TRUE, keys |-> DOMAIN r.results]
      [] OTHER -> [success |-> FALSE, keys |-> {}]

\* a call in which _parse_and_execute goes on with the `results` of the call
\* before
CallKeepingResults(p, dataframes) ==
    /\ pc = "idle"
    /\ self_dataframes' = dataframes
    /\ self_results' = << >>
    /\ plan' = p
    /\ results' = results
    /\ cursor' = 1
    /\ log' = << >>
    /\ response' = PyNone
    /\ last_return' = Ended(response)
    /\ exc' = IF IsNone(p) THEN PyStr("argument of type 'NoneType' is not iterable")
              ELSE PyNone
    /\ pc' = LET branch == Dispatch(p)
             IN IF branch \in {"except", "flexible"} THEN branch
                ELSE AfterEntry(p, branch, 0)
    /\ UNCHANGED profiler_vars

\* execute_aggregation_plan(plan, dataframes), lines 32-45 and 73-100 up to
\* the first entry of the loop
Call(p, dataframes) ==
    /\ pc = "idle"
    /\ last_return' = Ended(response)
    /\ self_dataframes' = dataframes
    /\ self_results' = << >>
    /\ plan' = p
    /\ results' = << >>
    /\ cursor' = 1
    /\ log' = << >>
    /\ response' = PyNone
    /\ exc' = IF IsNone(p) THEN PyStr("argument of type 'NoneType' is not iterable")
              ELSE PyNone
    /\ pc' = LET branch == Dispatch(p)
             IN IF branch \in {"except", "flexible"} THEN branch
                ELSE AfterEntry(p, branch, 0)
    /\ UNCHANGED profiler_vars

\* the first call on a new executor
FirstCall ==
    /\ pc = "idle"
    /\ IsNone(response)
    /\ \E p \in Plans, dataframes \in Registries : Call(p, dataframes)

\* a call on an executor that has returned from one
LaterCall ==
    /\ pc = "idle"
    /\ ~IsNone(response)
    /\ \E p \in LaterPlans, dataframes \in LaterRegistries : Call(p, dataframes)

\* results[result_key] = r.result, with what the operation logged
Store(result_key, r) ==
    /\ results' = (result_key :> r.result) @@ results
    /\ log' = Append(log, r.log)

\* lines 80-82: one iteration of the loop over plan['aggregations']
StepAggregation ==
    /\ pc = "aggregations"
    /\ Store("aggregation_" \o ToString(cursor),
             _execute_single_aggregation(self_dataframes, plan.aggregations[cursor]))
    /\ cursor' = cursor + 1
    /\ pc' = AfterEntry(plan, "aggregations", cursor)
    /\ self_dataframes' = AfterOperation(self_dataframes, plan.aggregations[cursor])
    /\ UNCHANGED <<last_return, self_results, plan, exc, response, profiler_vars>>

\* lines 86-88: one iteration of the loop over plan['operations']
StepOperation ==
    /\ pc = "operations"
    /\ Store("operation_" \o ToString(cursor),
             _execute_operation(self_dataframes, plan.operations[cursor]))
    /\ cursor' = cursor + 1
    /\ pc' = AfterEntry(plan, "operations", cursor)
    /\ self_dataframes' = AfterOperation(self_dataframes, plan.operations[cursor])
    /\ UNCHANGED <<last_return, self_results, plan, exc, response, profiler_vars>>

\* results[table_name] = r.result, or the exception of a step leaves the loop
StoreTable(table_name, r) ==
    /\ log' = log \o r.log
    /\ IF Raised(r.result)
       THEN /\ exc' = PyStr(r.result.raise)
            /\ pc' = "except"
            /\ UNCHANGED results
       ELSE /\ results' = (table_name :> r.result) @@ results
            /\ pc' = AfterEntry(plan, "tables", cursor)
            /\ UNCHANGED exc

\* lines 92-96: one iteration of the loop over plan['tables'].items()
StepTable ==
    /\ pc = "tables"
    /\ IF HasTable(self_dataframes, plan.tables[cursor].name)
       THEN StoreTable(plan.tables[cursor].name,
                       _execute_table_operations(
                           self_dataframes,
                           Lookup(self_dataframes, plan.tables[cursor].name),
                           plan.tables[cursor].steps))
       ELSE /\ pc' = AfterEntry(plan, "tables", cursor)
            /\ UNCHANGED <<results, exc, log>>
    /\ self_dataframes' =
          IF HasTable(self_dataframes, plan.tables[cursor].name)
          THEN AfterOperations(self_dataframes, plan.tables[cursor].steps, 1)
          ELSE self_dataframes
    /\ cursor' = cursor + 1
    /\ UNCHANGED <<last_return, self_results, plan, response, profiler_vars>>

\* results['main_aggregation'] = r, or its exception leaves _parse_and_execute
StoreFlexible(r) ==
    IF Raised(r)
    THEN /\ exc' = PyStr(r.raise)
         /\ pc' = "except"
         /\ UNCHANGED results
    ELSE /\ results' = ("main_aggregation" :> r) @@ results
         /\ pc' = "return"
         /\ UNCHANGED exc

\* line 100; _execute_flexible_plan works on a copy of the first frame (line
\* 221) and describes a selection of its columns
StepFlexible ==
    /\ pc = "flexible"
    /\ StoreFlexible(_execute_flexible_plan(self_dataframes, plan))
    /\ UNCHANGED <<last_return, self_dataframes, self_results, plan, cursor, response, log, profiler_vars>>

\* sum(len(df) for df in dataframes.values())
TotalRows(dataframes) ==
    SeqSum([k \in DOMAIN dataframes |-> Len(dataframes[k].df.rows)])

\* lines 47-63
Return ==
    /\ pc = "return"
    /\ response' =
          [success |-> TRUE,
           results |-> results,
           execution_metadata |->
              [tables_processed |-> Len(self_dataframes),
               aggregations_executed |-> Cardinality(DOMAIN results),
               total_rows_processed |-> TotalRows(self_dataframes)]]
    /\ pc' = "idle"
    /\ UNCHANGED <<last_return, self_dataframes, self_results, plan, results, cursor, exc, log,
                   profiler_vars>>

\* lines 65-71
Except ==
    /\ pc = "except"
    /\ response' = [success |-> FALSE, error |-> exc.s, partial_results |-> self_results]
    /\ log' = Append(log, <<Log("error", "error_executing_aggregation_plan")>>)
    /\ pc' = "idle"
    /\ UNCHANGED <<last_return, self_dataframes, self_results, plan, results, cursor, exc,
                   profiler_vars>>

Next ==
    \/ FirstCall
    \/ LaterCall
    \/ StepAggregation
    \/ StepOperation
    \/ StepTable
    \/ StepFlexible
    \/ Return
    \/ Except

Spec == Init /\ [][Next]_vars

\* ------------------------------------------------- extract_csvs_metadata
\* extract_csvs_metadata(file_dfs), lines 103-104 up to the first file
Extract(dfs) ==
    /\ profiler_pc = "idle"
    /\ file_dfs' = dfs
    /\ profiler_pc' = IF dfs = << >> THEN "relations" ELSE "files"
    /\ tables' = << >>
    /\ file_cursor' = 1
    /\ metadata' = PyNone
    /\ UNCHANGED executor_vars

\* the first call of the profiler
FirstExtract ==
    /\ profiler_pc = "idle"
    /\ IsNone(metadata)
    /\ \E dfs \in FileSets : Extract(dfs)

\* a call after another has returned
LaterExtract ==
    /\ profiler_pc = "idle"
    /\ ~IsNone(metadata)
    /\ \E dfs \in LaterFileSets : Extract(dfs)

\* lines 104-108: one iteration of the loop over file_dfs.items()
StepFile ==
    /\ profiler_pc = "files"
    /\ tables' = SetItem(tables,
                         normalize_table_name(file_dfs[file_cursor].name),
                         TableMeta(file_dfs[file_cursor].name, file_dfs[file_cursor].df))
    /\ file_cursor' = file_cursor + 1
    /\ profiler_pc' = IF file_cursor >= Len(file_dfs) THEN "relations" ELSE "files"
    /\ UNCHANGED <<file_dfs, metadata, executor_vars>>

\* lines 110-116: the relationship metadata and the return; the common
\* columns of two tables are listed in the iteration order of a set
Relate ==
    /\ profiler_pc = "relations"
    /\ \E order \in ColumnOrders :
          metadata' =
             [tables |-> tables,
              foreign_key_candidates |-> find_foreign_key_candidates(file_dfs),
              joinable_columns |-> find_joinable_columns(file_dfs, order)]
    /\ profiler_pc' = "idle"
    /\ UNCHANGED <<file_dfs, tables, file_cursor, executor_vars>>

ProfilerNext ==
    \/ FirstExtract
    \/ LaterExtract
    \/ StepFile
    \/ Relate

ProfilerSpec == Init /\ [][ProfilerNext]_vars

\* ------------------------------------------- the pipeline of one CSV file
\* a name as the str it is
RECURSIVE Joined(_)
Joined(chars) == IF chars = << >> THEN "" ELSE Head(chars) \o Joined(Tail(chars))

\* CSVProcessor.process, lines 49-67: the file is read into one report and
\* profiled on its own, extract_csvs_metadata({file_info.name: df})
ProcessCsv ==
    /\ profiler_pc = "idle"
    /\ IsNone(metadata)
    /\ \E name \in FileNames, df \in PairedFrames : Extract(<<Item(name, df)>>)

\* analyze_processing_result, lines 67-69: dataframes[report.name] =
\* report.dataframe for the reports of the result
ReportsRegistry(reports) ==
    [k \in DOMAIN reports |-> Item(Joined(reports[k].name), reports[k].df)]

\* the plans the planner may answer with after it has read the metadata: its
\* Operations name the table by the table_name or by the file_name reported
PlannedTables(meta) == {PyStr(Joined(meta.table_name)), PyStr(Joined(meta.file_name))}
PlannedOps(meta) ==
    {[table |-> t] : t \in PlannedTables(meta)}
    \cup {[table |-> t, limit |-> PyInt(1)] : t \in PlannedTables(meta)}
PlannedPlans(meta) ==
    {[aggregations |-> <<op>>] : op \in PlannedOps(meta)}
    \cup {[operations |-> <<op>>] : op \in PlannedOps(meta)}

\* analyze_processing_result, lines 44-74: with the metadata of the file, the
\* plan of the planner is executed on the registry of the reports
Analyze ==
    /\ profiler_pc = "idle"
    /\ ~IsNone(metadata)
    /\ pc = "idle"
    /\ IsNone(response)
    /\ \E p \in PlannedPlans(metadata.tables[1].meta) :
          Call(p, ReportsRegistry(file_dfs))

PipelineNext ==
    \/ ProcessCsv
    \/ StepFile
    \/ Relate
    \/ Analyze
    \/ StepAggregation
    \/ StepOperation
    \/ Return

PipelineSpec == Init /\ [][PipelineNext]_vars
\* ------------------------------------------------------------ properties
\* execute_aggregation_plan has returned, and has returned success: true
Done == pc = "idle" /\ ~IsNone(response)
Succeeded == Done /\ response.success

\* the two forms of an entry of the results
IsErrorEntry(e) == DOMAIN e = {"error"}
IsSummary(e) == DOMAIN e = {"data", "summary"}

\* the plan of the call is a list of Operations; its entries, the prefix of
\* their keys and the result stored for the entry i
ListPlan == ~IsNone(plan) /\ Dispatch(plan) \in {"aggregations", "operations"}
ListEntries == Entries(plan, Dispatch(plan))
KeyPrefix == IF Dispatch(plan) = "aggregations" THEN "aggregation_" ELSE "operation_"
EntryResult(i) == response.results[KeyPrefix \o ToString(i)]

\* the relation the resolution is to give for an Operation: the one registered
\* under its `table`, else the first of the registry
NamesATable(dataframes, op) ==
    /\ "table" \in DOMAIN op
    /\ \E k \in DOMAIN dataframes : PyStr(dataframes[k].name) = op.table
ExpectedTable(dataframes, op) ==
    IF NamesATable(dataframes, op)
    THEN dataframes[CHOOSE k \in DOMAIN dataframes :
                       PyStr(dataframes[k].name) = op.table].df
    ELSE dataframes[1].df

\* the keys `prefix`1 .. `prefix`n, the key of position i holding what the entry
\* i of the list gives as an Operation
KeyedByPosition(prefix, entries) ==
    /\ DOMAIN response.results = {prefix \o ToString(i) : i \in DOMAIN entries}
    /\ \A i \in DOMAIN entries :
          response.results[prefix \o ToString(i)]
             = _execute_single_aggregation(self_dataframes, entries[i]).result

\* C1: the shape of a plan is dispatched by strict precedence.  A plan with
\* `aggregations` runs exactly its entries and the result keys are exactly
\* aggregation_1 .. aggregation_n, whatever `operations` or `tables` it also
\* carries; else one with `operations` gives exactly operation_1 ..
\* operation_n; else one with `tables` gives table names as keys (those of the
\* registry); else the result has the single key main_aggregation.  The key
\* i + 1 holds the result of the entry at list position i.
C1_DispatchPrecedence ==
    Succeeded =>
        CASE "aggregations" \in DOMAIN plan ->
                KeyedByPosition("aggregation_", plan.aggregations)
          [] "operations" \in DOMAIN plan ->
                KeyedByPosition("operation_", plan.operations)
          [] "tables" \in DOMAIN plan ->
                DOMAIN response.results
                   = {plan.tables[k].name : k \in DOMAIN plan.tables}
                     \cap Range(Keys(self_dataframes))
          [] OTHER -> DOMAIN response.results = {"main_aggregation"}

\* a plan with `aggregations`, `operations` and `tables` has returned the
\* results of its two different aggregations
C1_Witness ==
    /\ Succeeded
    /\ {"aggregations", "operations", "tables"} \subseteq DOMAIN plan
    /\ Len(plan.aggregations) = 2
    /\ plan.aggregations[1] # plan.aggregations[2]
    /\ IsSummary(response.results["aggregation_1"])
    /\ IsErrorEntry(response.results["aggregation_2"])

\* Operations that raise whatever the other fields are: an entry that is no
\* mapping, any Operation on an empty registry, a `limit` that is a str, and a
\* first filter that orders the str column loc against an int on tables with
\* rows
KnownToRaise(dataframes, op) ==
    \/ ~IsDict(op)
    \/ dataframes = << >>
    \/ "limit" \in DOMAIN op /\ IsStr(op.limit)
    \/ /\ "filters" \in DOMAIN op
       /\ op.filters # << >>
       /\ DOMAIN op.filters[1] = {"column", "operator", "value"}
       /\ op.filters[1].column = "loc"
       /\ op.filters[1].operator \in OrderingOperators
       /\ IsInt(op.filters[1].value)
       /\ \A k \in DOMAIN dataframes : dataframes[k].df.rows # << >>

\* every entry of the list has its key, with an error entry or a summary, and
\* an error entry when it is known to raise
EveryEntryAnswered(stored, prefix, entries) ==
    \A i \in DOMAIN entries :
        /\ (prefix \o ToString(i)) \in DOMAIN stored
        /\ \/ IsErrorEntry(stored[prefix \o ToString(i)])
           \/ IsSummary(stored[prefix \o ToString(i)])
        /\ KnownToRaise(self_dataframes, entries[i])
              => IsErrorEntry(stored[prefix \o ToString(i)])

\* the steps of every table of a table-keyed plan are mappings
StepsAreMappings ==
    \A k \in DOMAIN plan.tables :
        \A i \in DOMAIN plan.tables[k].steps : IsDict(plan.tables[k].steps[i])

C3_TableResolution ==
    (Done /\ ListPlan /\ self_dataframes # << >>) =>
        \A i \in DOMAIN ListEntries :
            IsDict(ListEntries[i]) =>
               /\ DOMAIN ListEntries[i] \subseteq {"table", "type"} =>
                     /\ IsSummary(EntryResult(i))
                     /\ EntryResult(i).data
                           = ExpectedTable(self_dataframes, ListEntries[i]).rows
               /\ (/\ DOMAIN ListEntries[i]
                         \cap {"aggregate", "agg_functions"} = {}
                   /\ IsSummary(EntryResult(i))) =>
                     EntryResult(i).summary.columns
                        = ExpectedTable(self_dataframes, ListEntries[i]).cols
               /\ \A j \in DOMAIN ListEntries :
                     ListEntries[j] = ListEntries[i]
                        => EntryResult(j) = EntryResult(i)

\* an Operation on a table that is no key of a registry of two has returned
\* the rows of the first one, staff
C3_Witness ==
    /\ Succeeded
    /\ ListPlan
    /\ Len(self_dataframes) = 2
    /\ self_dataframes[1].name = "staff"
    /\ self_dataframes[1].df.rows # << >>
    /\ Len(ListEntries) = 1
    /\ IsDict(ListEntries[1])
    /\ DOMAIN ListEntries[1] = {"table"}
    /\ ListEntries[1].table = PyStr("unknown_table")
    /\ EntryResult(1).data = self_dataframes[1].df.rows

\* the resolution of an Operation takes the fallback
FallbackTaken(dataframes, op) == ~NamesATable(dataframes, op)

\* C4: whenever the resolution takes the fallback to the first table of the
\* registry (the `table` of the Operation is no key, or is not given at all), a
\* warning is logged for that Operation: no Operation succeeds through the
\* fallback with info-level logging only.
C4_FallbackWarns ==
    (Done /\ ListPlan) =>
        \A i \in DOMAIN ListEntries :
            (/\ IsDict(ListEntries[i])
             /\ FallbackTaken(self_dataframes, ListEntries[i])
             /\ IsSummary(EntryResult(i)))
               => \E k \in DOMAIN log[i] : log[i][k].level = "warning"

\* C5: in a table-keyed plan every step listed under a table name T of the
\* registry runs on the relation registered as T and is stored as step_{i+1}
\* under the key T; a table that is not in the registry gives no key and no
\* error.  (Stated for the steps that name no table themselves.)
C5_StepsRunOnTheirTable ==
    (Succeeded /\ Dispatch(plan) = "tables") =>
        \A k \in DOMAIN plan.tables :
            IF HasTable(self_dataframes, plan.tables[k].name)
            THEN /\ plan.tables[k].name \in DOMAIN response.results
                 /\ \A i \in DOMAIN plan.tables[k].steps :
                       /\ ("step_" \o ToString(i))
                             \in DOMAIN response.results[plan.tables[k].name]
                       /\ DOMAIN plan.tables[k].steps[i] \subseteq {"type"} =>
                             response.results[plan.tables[k].name]
                                             ["step_" \o ToString(i)].data
                                = Lookup(self_dataframes, plan.tables[k].name).rows
            ELSE plan.tables[k].name \notin DOMAIN response.results

\* a predicate that compares as its operator is meant to: it has a value, a
\* list for `in` and a scalar of the type of the column for an ordering
WellTyped(df, f) ==
    /\ IsDict(f)
    /\ {"column", "value"} \subseteq DOMAIN f
    /\ Get(f, "operator", "==") \in FilterOperators
    /\ HasCol(df, f.column) =>
          /\ Get(f, "operator", "==") = "in" <=> IsList(f.value)
          /\ Get(f, "operator", "==") \in OrderingOperators =>
                \/ df.dtypes[f.column] = "int64" /\ IsInt(f.value)
                \/ df.dtypes[f.column] = "object" /\ IsStr(f.value)

\* the row satisfies the predicate (on a column of the row)
Satisfies(row, f) ==
    CASE Get(f, "operator", "==") = "==" -> row[f.column] = f.value
      [] Get(f, "operator", "==") = "!=" -> row[f.column] # f.value
      [] Get(f, "operator", "==") = ">" -> CellLess(f.value, row[f.column])
      [] Get(f, "operator", "==") = "<" -> CellLess(row[f.column], f.value)
      [] Get(f, "operator", "==") = ">=" ->
            CellLess(f.value, row[f.column]) \/ row[f.column] = f.value
      [] Get(f, "operator", "==") = "<=" ->
            CellLess(row[f.column], f.value) \/ row[f.column] = f.value
      [] Get(f, "operator", "==") = "in" ->
            \E k \in DOMAIN f.value.list : f.value.list[k] = row[f.column]

\* the rows of df that satisfy every predicate on a column of df, in order
Kept(df, filters) ==
    SelectSeq(df.rows,
              LAMBDA row : \A k \in DOMAIN filters :
                              HasCol(df, filters[k].column) => Satisfies(row, filters[k]))

\* an Operation that only filters, with predicates that are well typed for
\* the table it resolves to
FiltersOnly(op) ==
    /\ IsDict(op)
    /\ "filters" \in DOMAIN op
    /\ DOMAIN op \subseteq {"table", "filters"}
    /\ \A k \in DOMAIN op.filters :
          WellTyped(ExpectedTable(self_dataframes, op), op.filters[k])

\* C6: filtering keeps exactly the rows of the resolved table that satisfy
\* every listed predicate whose column is in the table (the conjunction, over
\* ==, !=, >, <, >=, <= and in), in their original order; a predicate on a
\* column that is not in the table removes no row and raises no error.
C6_FilterConjunction ==
    (Done /\ ListPlan /\ self_dataframes # << >>) =>
        \A i \in DOMAIN ListEntries :
            FiltersOnly(ListEntries[i]) =>
               /\ IsSummary(EntryResult(i))
               /\ EntryResult(i).data
                     = Kept(ExpectedTable(self_dataframes, ListEntries[i]),
                            ListEntries[i].filters)

\* the filter amt > 75 on the amt values 100, 200, 50 has kept the rows with
\* 100 and 200
C6_Witness ==
    /\ Succeeded
    /\ ListPlan
    /\ self_dataframes # << >>
    /\ Len(ListEntries) = 1
    /\ FiltersOnly(ListEntries[1])
    /\ ListEntries[1].filters
          = <<[column |-> "amt", operator |-> ">", value |-> PyInt(75)]>>
    /\ HasCol(ExpectedTable(self_dataframes, ListEntries[1]), "amt")
    /\ Column(ExpectedTable(self_dataframes, ListEntries[1]), "amt")
          = <<PyInt(100), PyInt(200), PyInt(50)>>
    /\ EntryResult(1).data
          = <<[loc |-> PyStr("NYC"), amt |-> PyInt(100)],
              [loc |-> PyStr("NYC"), amt |-> PyInt(200)]>>

\* two predicates, one of them on a column that is not in the table, have
\* kept the rows the other one keeps, and not all of them
C6_WitnessAbsentColumn ==
    /\ Succeeded
    /\ ListPlan
    /\ self_dataframes # << >>
    /\ Len(ListEntries) = 1
    /\ FiltersOnly(ListEntries[1])
    /\ Len(ListEntries[1].filters) = 2
    /\ \E k \in 1..2 :
          ~HasCol(ExpectedTable(self_dataframes, ListEntries[1]),
                  ListEntries[1].filters[k].column)
    /\ EntryResult(1).data # << >>
    /\ Len(EntryResult(1).data)
          < Len(ExpectedTable(self_dataframes, ListEntries[1]).rows)

\* the functions requested for a column, given as one name or as a list
RequestedFunctions(f) == IF IsList(f) THEN f.list ELSE <<f.s>>

\* every function the map requests is one of the seven
RequestsKnownFunctions(m) ==
    \A k \in DOMAIN m.items : Range(RequestedFunctions(m.items[k][2])) \subseteq AggFunctions

\* the names {column}_{function} of the requested pairs whose column is in df,
\* in the order of the request
RECURSIVE PairNames(_, _)
PairNames(df, items) ==
    IF items = << >> THEN << >>
    ELSE (IF HasCol(df, Head(items)[1])
          THEN [k \in DOMAIN RequestedFunctions(Head(items)[2]) |->
                  Head(items)[1] \o "_" \o RequestedFunctions(Head(items)[2])[k]]
          ELSE << >>)
         \o PairNames(df, Tail(items))

\* an Operation with an aggregate map over int columns and no grouping
UngroupedAggregate(op) ==
    /\ IsDict(op)
    /\ DOMAIN op = {"aggregate"}
    /\ IsItems(op.aggregate)
    /\ op.aggregate.items # << >>
    /\ RequestsKnownFunctions(op.aggregate)
    /\ \A k \in DOMAIN op.aggregate.items :
          op.aggregate.items[k][1] \in {"amt", "qty", "profit"}

\* C7: an Operation with an aggregate map and no grouping gives a single row
\* with one scalar column {column}_{function} for every requested pair whose
\* column is in the table, for each of sum, mean, count, min, max, std and
\* median, the functions of a column given as one name or as a list of names.
C7_UngroupedScalars ==
    (Done /\ ListPlan /\ self_dataframes # << >>) =>
        \A i \in DOMAIN ListEntries :
            UngroupedAggregate(ListEntries[i]) =>
               /\ IsSummary(EntryResult(i))
               /\ EntryResult(i).summary.rows = 1
               /\ EntryResult(i).summary.columns
                     = PairNames(ExpectedTable(self_dataframes, ListEntries[i]),
                                 ListEntries[i].aggregate.items)

\* the group_by columns that are in df, in the order of the request
Retained(df, group_by) == SelectSeq(group_by.list, LAMBDA c : HasCol(df, c))

\* the number of distinct combinations of values the rows of df have under the
\* group_by columns that are in df
DistinctKeys(df, group_by) ==
    Cardinality({[c \in Range(Retained(df, group_by)) |-> df.rows[k][c]] :
                    k \in DOMAIN df.rows})

\* an Operation that groups and aggregates and does nothing else
GroupedAggregate(op) ==
    /\ IsDict(op)
    /\ DOMAIN op = {"group_by", "aggregate"}
    /\ IsList(op.group_by) /\ op.group_by.list # << >>
    /\ IsItems(op.aggregate) /\ op.aggregate.items # << >>

\* C8: with group_by and aggregate both present, the result never has more
\* rows than there are distinct combinations of group-key values in the input,
\* for every choice of group_by columns, columns that are not in the table
\* included.
C8_GroupedRowCount ==
    (Done /\ ListPlan /\ self_dataframes # << >>) =>
        \A i \in DOMAIN ListEntries :
            (GroupedAggregate(ListEntries[i]) /\ IsSummary(EntryResult(i))) =>
                EntryResult(i).summary.rows
                   <= DistinctKeys(ExpectedTable(self_dataframes, ListEntries[i]),
                                   ListEntries[i].group_by)

\* a grouped aggregation that is carried out: a group_by column and a
\* requested aggregate column are in df, and the functions are known
GroupsAndAggregates(df, op) ==
    /\ GroupedAggregate(op)
    /\ Retained(df, op.group_by) # << >>
    /\ RequestsKnownFunctions(op.aggregate)
    /\ PairNames(df, op.aggregate.items) # << >>

C9_WitnessSingleName ==
    /\ Succeeded
    /\ ListPlan
    /\ Len(ListEntries) = 1
    /\ GroupedAggregate(ListEntries[1])
    /\ IsSummary(EntryResult(1))
    /\ ListEntries[1].aggregate = Items(<<<<"amt", PyStr("sum")>>>>)
    /\ EntryResult(1).summary.columns = <<"loc", "amt_sum">>
    /\ EntryResult(1).summary.rows = 2

\* the Operation without its limit, and what it gives: the result before the
\* limit
Unlimited(op) == [k \in DOMAIN op \ {"limit"} |-> op[k]]
BeforeLimit(op) == _execute_single_aggregation(self_dataframes, Unlimited(op)).result

\* an Operation with an int as its limit, whose stages before the limit give
\* a result
LimitsTo(op) ==
    /\ IsDict(op)
    /\ "limit" \in DOMAIN op
    /\ IsInt(op.limit)
    /\ IsSummary(BeforeLimit(op))

\* the result of the entry i is the first n rows of the result before its
\* limit
FirstRows(i, n) ==
    /\ IsSummary(EntryResult(i))
    /\ Len(EntryResult(i).data) = n
    /\ n <= Len(BeforeLimit(ListEntries[i]).data)
    /\ EntryResult(i).data = SubSeq(BeforeLimit(ListEntries[i]).data, 1, n)

\* C10 as stated: limit: N yields exactly min(N, rows_before_limit) rows, the
\* first rows of the (sorted) result in unchanged order, never more than the
\* result had, for every integer N of a plan.
C10_LimitIsMin ==
    (Done /\ ListPlan) =>
        \A i \in DOMAIN ListEntries :
            LimitsTo(ListEntries[i]) =>
                FirstRows(i, Min(ListEntries[i].limit.i,
                                 Len(BeforeLimit(ListEntries[i]).data)))

\* C10 as amended: limit: N yields exactly min(N, rows_before_limit) rows for
\* every N >= 0, and max(rows_before_limit + N, 0) rows (all but the last -N)
\* for every N < 0; they are the first rows of the (sorted) result in unchanged
\* order, never more than the result had.
C10_LimitTruncates ==
    (Done /\ ListPlan) =>
        \A i \in DOMAIN ListEntries :
            LimitsTo(ListEntries[i]) =>
                FirstRows(i, IF ListEntries[i].limit.i >= 0
                             THEN Min(ListEntries[i].limit.i,
                                      Len(BeforeLimit(ListEntries[i]).data))
                             ELSE Max(Len(BeforeLimit(ListEntries[i]).data)
                                      + ListEntries[i].limit.i, 0))

\* limit: -1 on a sorted result of three rows has given its first two rows
C10_Witness ==
    /\ Succeeded
    /\ ListPlan
    /\ Len(ListEntries) = 1
    /\ LimitsTo(ListEntries[1])
    /\ ListEntries[1].limit = PyInt(-1)
    /\ "sort" \in DOMAIN ListEntries[1]
    /\ Len(BeforeLimit(ListEntries[1]).data) = 3
    /\ Len(EntryResult(1).data) = 2
    /\ "amt" \in DOMAIN BeforeLimit(ListEntries[1]).data[1]
    /\ BeforeLimit(ListEntries[1]).data[1].amt = PyInt(200)

\* limit: 4 on a result of three rows has given the three rows
C10_WitnessLargeLimit ==
    /\ Succeeded
    /\ ListPlan
    /\ Len(ListEntries) = 1
    /\ LimitsTo(ListEntries[1])
    /\ ListEntries[1].limit.i > Len(BeforeLimit(ListEntries[1]).data)
    /\ Len(EntryResult(1).data) = 3

\* the Operation without one of its fields, and with a field set
Without(op, field) == [k \in DOMAIN op \ {field} |-> op[k]]
With(op, field, value) == [k \in DOMAIN op \cup {field} |-> IF k = field THEN value ELSE op[k]]

\* what an Operation gives on the registry of the call
ResultOf(op) == _execute_single_aggregation(self_dataframes, op).result

\* the two sequences have the same rows, each as often
SameRows(a, b) ==
    /\ Len(a) = Len(b)
    /\ \A k \in DOMAIN a :
          Cardinality({j \in DOMAIN a : a[j] = a[k]})
             = Cardinality({j \in DOMAIN b : b[j] = a[k]})

\* the rows are in the order of their cells under column
OrderedBy(data, column, ascending) ==
    \A k \in DOMAIN data :
        k < Len(data) =>
            IF ascending THEN ~CellLess(data[k + 1][column], data[k][column])
            ELSE ~CellLess(data[k][column], data[k + 1][column])

\* the result is the result before the sort, ordered as the sort
\* specification declares, or unchanged when its column is no column of it
SortedAs(after, before, sort_config) ==
    IF /\ "column" \in DOMAIN sort_config
       /\ sort_config.column \in Range(before.summary.columns)
    THEN /\ SameRows(after.data, before.data)
         /\ OrderedBy(after.data, sort_config.column,
                      Get(sort_config, "ascending", TRUE))
    ELSE after.data = before.data

\* an Operation that sorts and does not limit, whose stages before the sort
\* give a result
Sorts(op) ==
    /\ IsDict(op)
    /\ "sort" \in DOMAIN op
    /\ "limit" \notin DOMAIN op
    /\ IsSummary(ResultOf(Without(op, "sort")))

\* C11: a `sort` that is a single specification orders the result by that
\* column of the result, ascending or descending as declared and ascending
\* when not declared; of a `sort` that is a list only the first entry is
\* applied, the later entries changing nothing of the row order; a sort column
\* that is no column of the result leaves the row order as it is and raises
\* no error.
C11_Sorting ==
    (Done /\ ListPlan) =>
        \A i \in DOMAIN ListEntries :
            Sorts(ListEntries[i]) =>
               /\ IsSummary(EntryResult(i))
               /\ IsDict(ListEntries[i].sort) =>
                     SortedAs(EntryResult(i),
                              ResultOf(Without(ListEntries[i], "sort")),
                              ListEntries[i].sort)
               /\ (IsList(ListEntries[i].sort) /\ ListEntries[i].sort.list # << >>) =>
                     /\ SortedAs(EntryResult(i),
                                 ResultOf(Without(ListEntries[i], "sort")),
                                 ListEntries[i].sort.list[1])
                     /\ EntryResult(i)
                           = ResultOf(With(ListEntries[i], "sort",
                                           ListEntries[i].sort.list[1]))

\* the three rows of sales have been sorted by amt, descending
C11_Witness ==
    /\ Succeeded
    /\ ListPlan
    /\ Len(ListEntries) = 1
    /\ Sorts(ListEntries[1])
    /\ ListEntries[1].sort = [column |-> "amt", ascending |-> FALSE]
    /\ Len(EntryResult(1).data) = 3
    /\ "amt" \in DOMAIN EntryResult(1).data[1]
    /\ [k \in 1..3 |-> EntryResult(1).data[k].amt]
          = <<PyInt(200), PyInt(100), PyInt(50)>>

\* of a list, only the first entry (loc) has ordered the rows: the two rows
\* of NYC are in their original order, which the second entry would reverse
C11_WitnessList ==
    /\ Succeeded
    /\ ListPlan
    /\ Len(ListEntries) = 1
    /\ Sorts(ListEntries[1])
    /\ IsList(ListEntries[1].sort)
    /\ Len(ListEntries[1].sort.list) = 2
    /\ ListEntries[1].sort.list[1].column = "loc"
    /\ Len(EntryResult(1).data) = 3
    /\ "amt" \in DOMAIN EntryResult(1).data[1]
    /\ [k \in 1..3 |-> EntryResult(1).data[k].amt]
          = <<PyInt(50), PyInt(100), PyInt(200)>>

\* the stages of an Operation on df in the order filter, group and aggregate,
\* sort, limit, each given what the stage before it left
StagedLimit(op, sorted) == IF Raised(sorted) THEN sorted ELSE Limited(sorted, op)
StagedSort(op, aggregated) ==
    IF Raised(aggregated) THEN aggregated
    ELSE StagedLimit(op, Sorted(aggregated, op))
StagedAggregate(op, filtered) ==
    IF Raised(filtered) THEN filtered
    ELSE StagedSort(op, Aggregated(filtered, op))
Staged(df, op) == StagedAggregate(op, Filtered(df, op))

\* the Operation of the scenario, and the table sales of the scenario
ScenarioOp ==
    [table |-> PyStr("sales"),
     group_by |-> List(<<"loc">>),
     aggregate |-> Items(<<<<"amt", List(<<"sum">>)>>>>),
     sort |-> [column |-> "amt_sum", ascending |-> FALSE],
     limit |-> PyInt(1)]
ScenarioSales ==
    <<[loc |-> PyStr("NYC"), amt |-> PyInt(100)],
      [loc |-> PyStr("NYC"), amt |-> PyInt(200)],
      [loc |-> PyStr("LA"), amt |-> PyInt(50)]>>

\* C12: the stages of an Operation run in the order filter, group and
\* aggregate, sort, limit: the aggregation sees the filtered rows only, the
\* sort is resolved against the columns after the aggregation, the limit
\* truncates the sorted result.  On sales = [NYC 100, NYC 200, LA 50] the
\* Operation {table: sales, group_by: [loc], aggregate: {amt: [sum]}, sort:
\* {column: amt_sum, ascending: false}, limit: 1} gives exactly [{loc: NYC,
\* amt_sum: 300}].
C12_StageOrder ==
    (Done /\ ListPlan /\ self_dataframes # << >>) =>
        \A i \in DOMAIN ListEntries :
            IsDict(ListEntries[i]) =>
               /\ ~Raised(Staged(ExpectedTable(self_dataframes, ListEntries[i]),
                                 ListEntries[i])) =>
                     /\ IsSummary(EntryResult(i))
                     /\ EntryResult(i).data
                           = Staged(ExpectedTable(self_dataframes, ListEntries[i]),
                                    ListEntries[i]).rows
                     /\ EntryResult(i).summary.columns
                           = Staged(ExpectedTable(self_dataframes, ListEntries[i]),
                                    ListEntries[i]).cols
               /\ (/\ ListEntries[i] = ScenarioOp
                   /\ ExpectedTable(self_dataframes, ListEntries[i]).rows
                         = ScenarioSales) =>
                     /\ IsSummary(EntryResult(i))
                     /\ EntryResult(i).data
                           = <<[loc |-> PyStr("NYC"), amt_sum |-> PyInt(300)]>>

\* the Operation of the scenario has given [{loc: NYC, amt_sum: 300}] on the
\* table of the scenario
C12_Witness ==
    /\ Succeeded
    /\ ListPlan
    /\ self_dataframes # << >>
    /\ Len(ListEntries) = 1
    /\ ListEntries[1] = ScenarioOp
    /\ ExpectedTable(self_dataframes, ListEntries[1]).rows = ScenarioSales
    /\ EntryResult(1).data = <<[loc |-> PyStr("NYC"), amt_sum |-> PyInt(300)]>>

\* with the filter amt < 75 before it, the same aggregation sorted in
\* descending order and limited to one row has given the group of LA only:
\* the aggregation has seen the filtered rows
C12_WitnessFiltered ==
    /\ Succeeded
    /\ ListPlan
    /\ self_dataframes # << >>
    /\ Len(ListEntries) = 1
    /\ IsDict(ListEntries[1])
    /\ DOMAIN ListEntries[1] = DOMAIN ScenarioOp \cup {"filters"}
    /\ ListEntries[1].filters
          = <<[column |-> "amt", operator |-> "<", value |-> PyInt(75)]>>
    /\ ListEntries[1].sort = ScenarioOp.sort
    /\ ExpectedTable(self_dataframes, ListEntries[1]).rows = ScenarioSales
    /\ EntryResult(1).data = <<[loc |-> PyStr("LA"), amt_sum |-> PyInt(50)]>>

\* C13: when the call ends in a failure of the batch (success: false) after
\* operations of the plan have produced results, the partial results it
\* returns hold those results under their keys.
C13_PartialResults ==
    (Done /\ ~response.success) =>
        \A key \in DOMAIN results :
            /\ key \in DOMAIN response.partial_results
            /\ response.partial_results[key] = results[key]

\* the entries of a list plan all have an error entry under their keys, the
\* mappings among them for the table that is not found
AllResolutionErrors ==
    /\ DOMAIN response.results = {KeyPrefix \o ToString(i) : i \in DOMAIN ListEntries}
    /\ \A i \in DOMAIN ListEntries :
          /\ IsErrorEntry(EntryResult(i))
          /\ IsDict(ListEntries[i]) => EntryResult(i).error = "No valid table found"

\* C14: with an empty registry a resolution error is fatal to the
\* Operation only, for every shape of plan, the flexible plan keyed
\* main_aggregation included: each key holds an error entry and the call
\* returns success: true, not a failure of the batch.
C14_EmptyRegistryLocal ==
    (Done /\ ~IsNone(plan) /\ self_dataframes = << >>) =>
        /\ response.success
        /\ ListPlan => AllResolutionErrors
        /\ Dispatch(plan) = "flexible" =>
              /\ DOMAIN response.results = {"main_aggregation"}
              /\ IsErrorEntry(response.results["main_aggregation"])

C15_WitnessTableSteps ==
    /\ Succeeded
    /\ Dispatch(plan) = "tables"
    /\ \E k \in DOMAIN plan.tables :
          LET entry == plan.tables[k]
          IN /\ HasTable(self_dataframes, entry.name)
             /\ entry.name \in DOMAIN response.results
             /\ "step_1" \in DOMAIN response.results[entry.name]
             /\ IsSummary(response.results[entry.name]["step_1"])
             /\ response.results[entry.name]["step_1"].summary.rows
                   < Len(self_dataframes[1].df.rows)

\* a call has returned whose operation failed on a registry that holds rows
C15_WitnessFailure ==
    /\ Succeeded
    /\ ListPlan
    /\ self_dataframes # << >>
    /\ Len(self_dataframes[1].df.rows) > 0
    /\ \E i \in DOMAIN ListEntries : IsErrorEntry(EntryResult(i))

\* ------------------------------------------------------------------ C16
\* the key of the entry i of a list plan
KeyOfEntry(i) == KeyPrefix \o ToString(i)

\* what is stored for a table of a table-keyed plan is, step by step, what
\* each step gives as an Operation on the registry
StepsOnRegistry(stored, steps) ==
    /\ DOMAIN stored = {"step_" \o ToString(j) : j \in DOMAIN steps}
    /\ \A j \in DOMAIN steps : stored["step_" \o ToString(j)] = ResultOf(steps[j])

\* C16: the operations of one plan are independent.  At every point of a call
\* what is stored under the key of an operation is what that operation gives
\* on the registry of the call, whatever the other operations of the plan
\* are, how many they are, where in the plan they stand and which of them ran
\* before; a step of a table-keyed plan reads the registry, not what the step
\* before it gave.
C16_Independent ==
    ~IsNone(plan) =>
        /\ ListPlan =>
              \A i \in DOMAIN ListEntries :
                  KeyOfEntry(i) \in DOMAIN results =>
                      results[KeyOfEntry(i)] = ResultOf(ListEntries[i])
        /\ Dispatch(plan) = "tables" =>
              \A k \in DOMAIN plan.tables :
                  plan.tables[k].name \in DOMAIN results =>
                      StepsOnRegistry(results[plan.tables[k].name], plan.tables[k].steps)
        /\ Succeeded => response.results = results

\* a plan of two operations on one table has run, the second of which gave
\* all the rows of the table after the first had filtered rows out
C16_Witness ==
    /\ Succeeded
    /\ ListPlan
    /\ ListEntries = <<PartOp, WholeOp>>
    /\ HasTable(self_dataframes, "sales")
    /\ EntryResult(1).summary.rows < MaxRows
    /\ EntryResult(2).summary.rows = MaxRows

\* the same two operations in the other order gave each the same result
C16_WitnessReordered ==
    /\ Succeeded
    /\ ListPlan
    /\ ListEntries = <<WholeOp, PartOp>>
    /\ HasTable(self_dataframes, "sales")
    /\ EntryResult(1).summary.rows = MaxRows
    /\ EntryResult(2).summary.rows < MaxRows

\* the two steps of a table of a table-keyed plan: the second gave all the
\* rows after the first had filtered rows out
C16_WitnessSteps ==
    /\ Succeeded
    /\ Dispatch(plan) = "tables"
    /\ Len(plan.tables) = 1
    /\ plan.tables[1] = [name |-> "sales", steps |-> <<PartOp, WholeOp>>]
    /\ "sales" \in DOMAIN response.results
    /\ response.results["sales"]["step_1"].summary.rows < MaxRows
    /\ response.results["sales"]["step_2"].summary.rows = MaxRows

\* ------------------------------------------------------------------ C17
\* the Operation with the field `from` written under the name `to`
Renamed(op, from, to) ==
    IF from \in DOMAIN op /\ to \notin DOMAIN op
    THEN With(Without(op, from), to, op[from])
    ELSE op

\* the Operation in the alternate style and in the standard style
Alternate(op) == Renamed(Renamed(op, "group_by", "groupby"), "aggregate", "agg_functions")
Standard(op) == Renamed(Renamed(op, "groupby", "group_by"), "agg_functions", "aggregate")

\* C17: an Operation written with the alternate field names groupby and
\* agg_functions gives the same result as the same Operation written with
\* group_by and aggregate, the values and all other fields being the same:
\* what a call stored for an entry is what the entry gives in either style.
C17_AlternateNames ==
    (Succeeded /\ ListPlan) =>
        \A i \in DOMAIN ListEntries :
            IsDict(ListEntries[i]) =>
                /\ EntryResult(i) = ResultOf(Alternate(ListEntries[i]))
                /\ EntryResult(i) = ResultOf(Standard(ListEntries[i]))

\* an Operation in the alternate style has grouped and aggregated a table
C17_Witness ==
    /\ Succeeded
    /\ ListPlan
    /\ Len(ListEntries) = 1
    /\ IsDict(ListEntries[1])
    /\ {"groupby", "agg_functions"} \subseteq DOMAIN ListEntries[1]
    /\ DOMAIN ListEntries[1] \cap {"group_by", "aggregate"} = {}
    /\ IsSummary(EntryResult(1))
    /\ EntryResult(1).summary.columns = <<"loc", "amt_sum">>
    /\ EntryResult(1).summary.rows > 1

\* an Operation in the standard style has grouped and aggregated a table
C17_WitnessStandard ==
    /\ Succeeded
    /\ ListPlan
    /\ Len(ListEntries) = 1
    /\ IsDict(ListEntries[1])
    /\ {"group_by", "aggregate"} \subseteq DOMAIN ListEntries[1]
    /\ IsSummary(EntryResult(1))
    /\ EntryResult(1).summary.columns = <<"loc", "amt_sum", "amt_mean">>
    /\ EntryResult(1).summary.rows > 1

\* ------------------------------------------------------------------ C18
\* the call took the flexible fallback on a registry that holds a table
Flexible ==
    /\ Done
    /\ ~IsNone(plan)
    /\ Dispatch(plan) = "flexible"
    /\ self_dataframes # << >>

\* the plan defines none of group_by, aggregate, filters
DefinesNoStage == DOMAIN plan \cap {"group_by", "aggregate", "filters"} = {}

\* the numeric columns of a relation, in its column order
Numeric(df) == SelectSeq(df.cols, LAMBDA c : df.dtypes[c] # "object")

\* the value at the fraction num/den of the way through the ascending ints xs,
\* interpolated linearly between its neighbours
Quantile(xs, num, den) ==
    LET h == (Len(xs) - 1) * num
    IN IF h % den = 0 THEN Frac(xs[h \div den + 1], 1)
       ELSE Frac(den * xs[h \div den + 1]
                 + (h % den) * (xs[h \div den + 2] - xs[h \div den + 1]), den)

\* count, mean, std, min, 25%, 50%, 75%, max of the int cells vals
Statistics(vals) ==
    IF vals = << >> THEN <<Frac(0, 1), NaN, NaN, NaN, NaN, NaN, NaN, NaN>>
    ELSE LET xs == IntsOf(SortedCells(vals))
         IN <<Frac(Len(vals), 1), Frac(SeqSum(xs), Len(xs)), Std(vals),
              Frac(Least(vals).i, 1), Quantile(xs, 1, 4), Median(vals),
              Quantile(xs, 3, 4), Frac(Greatest(vals).i, 1)>>

\* the result is the descriptive-statistics summary of the numeric columns
\* of df
DescriptiveSummary(result, df) ==
    /\ IsSummary(result)
    /\ result.summary = [rows |-> 8, columns |-> Numeric(df),
                         operation |-> "flexible_execution"]
    /\ Len(result.data) = 8
    /\ \A k \in 1..8 :
          /\ DOMAIN result.data[k] = Range(Numeric(df))
          /\ \A c \in Range(Numeric(df)) :
                result.data[k][c] = Statistics(Column(df, c))[k]

\* the result is the relation as it is
WholeTable(result, df) ==
    /\ IsSummary(result)
    /\ result.data = df.rows
    /\ result.summary = [rows |-> Len(df.rows), columns |-> df.cols,
                         operation |-> "flexible_execution"]

\* the call gave one result, under main_aggregation
OneMainResult == response.success /\ DOMAIN response.results = {"main_aggregation"}

C18_WitnessNoNumeric ==
    /\ Flexible
    /\ plan = << >>
    /\ self_dataframes[1].name = "notes"
    /\ Len(self_dataframes[1].df.rows) = MaxRows
    /\ OneMainResult
    /\ Len(response.results["main_aggregation"].data) = MaxRows

\* a plan that defines filters has run on a table with a numeric column
C18_WitnessFilters ==
    /\ Flexible
    /\ "filters" \in DOMAIN plan
    /\ self_dataframes[1].name = "sales"
    /\ Len(self_dataframes[1].df.rows) = MaxRows
    /\ OneMainResult
    /\ Len(response.results["main_aggregation"].data) = MaxRows

\* ------------------------------------------------------------------ C19
\* the profiler has returned
Profiled == profiler_pc = "idle" /\ ~IsNone(metadata)

\* the columns of a Table Metadata whose Column Metadata says that they have
\* as many distinct values as the table has rows and are not nullable
KeyLike(meta) ==
    {meta.columns[k].column_name :
        k \in {j \in DOMAIN meta.columns :
                 /\ meta.columns[j].unique_count = meta.row_count
                 /\ ~meta.columns[j].nullable}}

\* C19: for every non-empty relation the primary_key_candidates are exactly
\* the columns whose Column Metadata has unique_count = row_count and
\* nullable = false: no other column is listed, none of these is missing and
\* none is listed twice.
C19_PrimaryKeyCandidates ==
    \A k \in DOMAIN tables :
        tables[k].meta.row_count > 0 =>
            /\ Range(tables[k].meta.primary_key_candidates) = KeyLike(tables[k].meta)
            /\ Len(tables[k].meta.primary_key_candidates)
                  = Cardinality(KeyLike(tables[k].meta))

\* a table of MaxRows rows has been profiled in which one column is a
\* candidate and the other, with a repeated value and no missing one, is not
C19_Witness ==
    /\ Profiled
    /\ Len(metadata.tables) = 1
    /\ metadata.tables[1].meta.row_count = MaxRows
    /\ metadata.tables[1].meta.primary_key_candidates = <<"id">>
    /\ \A k \in DOMAIN metadata.tables[1].meta.columns :
          ~metadata.tables[1].meta.columns[k].nullable

\* a table has been profiled with a column whose values are all different
\* and one of them missing: it is no candidate
C19_WitnessNullable ==
    /\ Profiled
    /\ Len(metadata.tables) = 1
    /\ metadata.tables[1].meta.row_count > 1
    /\ \E k \in DOMAIN metadata.tables[1].meta.columns :
          /\ metadata.tables[1].meta.columns[k].nullable
          /\ metadata.tables[1].meta.columns[k].unique_count
                = metadata.tables[1].meta.row_count - 1
          /\ metadata.tables[1].meta.columns[k].column_name
                \notin Range(metadata.tables[1].meta.primary_key_candidates)

\* ------------------------------------------------------------------ C20
\* the file names under which a table of the call has no rows
EmptyFiles == {file_dfs[k].name : k \in {j \in DOMAIN file_dfs : file_dfs[j].df.rows = << >>}}

\* the table of that file name is part of no foreign-key candidate
InNoCandidate(name) ==
    \A k \in DOMAIN metadata.foreign_key_candidates :
        LET entry == metadata.foreign_key_candidates[k]
        IN /\ entry.name = name => entry.candidates = << >>
           /\ \A j \in DOMAIN entry.candidates : entry.candidates[j][2][1] # name

\* C20: profiling an empty table (no rows, any number of columns) gives
\* metadata with row_count = 0 and no candidates: its primary_key_candidates
\* list is empty and it is part of no foreign-key candidate, neither as the
\* local side nor as the referenced side.
C20_EmptyTable ==
    Profiled =>
        /\ \A k \in DOMAIN file_dfs :
              file_dfs[k].df.rows = << >> =>
                  \E t \in DOMAIN metadata.tables :
                      /\ metadata.tables[t].meta.file_name = file_dfs[k].name
                      /\ metadata.tables[t].meta.row_count = 0
                      /\ metadata.tables[t].meta.primary_key_candidates = << >>
        /\ \A name \in EmptyFiles : InNoCandidate(name)

\* ------------------------------------------------------------------ C21
\* the non-null values of a column under Python's equality of values: a
\* float without a fractional part is the int equal to it, True is 1 and
\* False is 0
NonNullValues(df, col) ==
    {CASE IsFrac(c) /\ c.d = 1 -> PyInt(c.n)
       [] IsBool(c) -> PyInt(IF c.b THEN 1 ELSE 0)
       [] OTHER -> c :
        c \in {d \in Range(Column(df, col)) : ~IsNaN(d) /\ ~IsNone(d)}}

\* the candidates listed under the table t1
CandidatesOf(t1) ==
    Flat([k \in DOMAIN metadata.foreign_key_candidates |->
            IF metadata.foreign_key_candidates[k].name = t1
            THEN metadata.foreign_key_candidates[k].candidates
            ELSE << >>])

\* how often the candidate col1 -> t2.col2 is listed for the table t1
TimesReported(t1, col1, t2, col2) ==
    Cardinality({j \in DOMAIN CandidatesOf(t1) :
                    CandidatesOf(t1)[j] = <<col1, <<t2, ".", col2>>>>})

\* the candidate is to be reported: two tables, the values of the first
\* column a non-empty strict subset of those of the second
StrictSubset(k1, col1, k2, col2) ==
    /\ k1 # k2
    /\ NonNullValues(file_dfs[k1].df, col1) # {}
    /\ NonNullValues(file_dfs[k1].df, col1) \subseteq NonNullValues(file_dfs[k2].df, col2)
    /\ NonNullValues(file_dfs[k1].df, col1) # NonNullValues(file_dfs[k2].df, col2)

\* C21: a foreign-key candidate (t1.col1 -> t2.col2) is reported, once, if
\* and only if t1 and t2 are distinct tables and the non-null value set of
\* t1.col1 is a non-empty strict subset of that of t2.col2; so (t1.col1 ->
\* t2.col2) and (t2.col2 -> t1.col1) are never both reported and columns with
\* equal value sets are never reported.
C21_ForeignKeyCandidates ==
    Profiled =>
        /\ Len(metadata.foreign_key_candidates) = Len(file_dfs)
        /\ \A k1 \in DOMAIN file_dfs, k2 \in DOMAIN file_dfs :
              \A col1 \in Range(file_dfs[k1].df.cols), col2 \in Range(file_dfs[k2].df.cols) :
                  /\ TimesReported(file_dfs[k1].name, col1, file_dfs[k2].name, col2)
                        = IF StrictSubset(k1, col1, k2, col2) THEN 1 ELSE 0
                  /\ TimesReported(file_dfs[k1].name, col1, file_dfs[k2].name, col2) = 0
                     \/ TimesReported(file_dfs[k2].name, col2, file_dfs[k1].name, col1) = 0

\* a candidate has been reported whose local column holds floats, one of
\* them missing, and whose referenced column holds ints
C21_Witness ==
    /\ Profiled
    /\ Len(file_dfs) = 2
    /\ file_dfs[1].df.dtypes["id"] = "float64"
    /\ file_dfs[2].df.dtypes["id"] = "int64"
    /\ TimesReported(file_dfs[1].name, "id", file_dfs[2].name, "id") = 1
    /\ TimesReported(file_dfs[2].name, "id", file_dfs[1].name, "id") = 0

\* two tables have been profiled whose id columns hold the same two values:
\* neither is reported for the other
C21_WitnessEqualSets ==
    /\ Profiled
    /\ Len(file_dfs) = 2
    /\ Cardinality(NonNullValues(file_dfs[1].df, "id")) = 2
    /\ NonNullValues(file_dfs[1].df, "id") = NonNullValues(file_dfs[2].df, "id")
    /\ TimesReported(file_dfs[1].name, "id", file_dfs[2].name, "id") = 0
    /\ TimesReported(file_dfs[2].name, "id", file_dfs[1].name, "id") = 0

\* ------------------------------------------------------------------ C22
\* the inferred type of a column, as its Column Metadata reports it
InferredType(df, col) == ColumnMeta(df, col).data_type

\* the entries of joinable_columns that pair the column col of the table t1
\* with the column col of the table t2, in this order
EntriesFor(t1, t2, col) ==
    {j \in DOMAIN metadata.joinable_columns :
        /\ metadata.joinable_columns[j][1] = <<t1, ".", col>>
        /\ metadata.joinable_columns[j][2] = <<t2, ".", col>>}

\* the two tables share the column name, with one inferred type
SharedColumn(k1, k2, col) ==
    /\ HasCol(file_dfs[k1].df, col)
    /\ HasCol(file_dfs[k2].df, col)
    /\ InferredType(file_dfs[k1].df, col) = InferredType(file_dfs[k2].df, col)

\* C22: joinable_columns holds exactly one entry for every unordered pair of
\* distinct tables and every column name the two share with identical
\* inferred type: never an entry that pairs a table with itself, never both
\* (t1.c, t2.c) and (t2.c, t1.c), never an entry for columns of one name and
\* different types.
C22_JoinableColumns ==
    Profiled =>
        \A k1 \in DOMAIN file_dfs, k2 \in DOMAIN file_dfs :
            \A col \in Range(file_dfs[k1].df.cols) :
                Cardinality(EntriesFor(file_dfs[k1].name, file_dfs[k2].name, col))
                   + Cardinality(EntriesFor(file_dfs[k2].name, file_dfs[k1].name, col))
                   = IF k1 # k2 /\ SharedColumn(k1, k2, col) THEN 1 ELSE 0

\* ------------------------------------------------------------------ C23
\* the file whose metadata the table entry k of the output holds: the last
\* file of that table name
FileOf(k) ==
    CHOOSE f \in DOMAIN file_dfs :
        /\ normalize_table_name(file_dfs[f].name) = metadata.tables[k].name
        /\ \A g \in DOMAIN file_dfs :
              normalize_table_name(file_dfs[g].name) = metadata.tables[k].name => g <= f

\* the distinct non-null values of a column
DistinctNonNull(df, col) == {c \in Range(Column(df, col)) : ~IsNaN(c) /\ ~IsNone(c)}

\* a ratio n/d, or the integer 0, that lies in [0, 1]
InUnitInterval(r) ==
    IF IsInt(r) THEN r.i \in {0, 1}
    ELSE IsFrac(r) /\ r.d > 0 /\ 0 <= r.n /\ r.n <= r.d

\* the ratio r is the quotient n / d
IsQuotient(r, n, d) ==
    IF IsInt(r) THEN n = r.i * d ELSE IsFrac(r) /\ r.n * d = n * r.d

\* the Column Metadata m is that of the column col of df
RatioOf(m, df, col) ==
    /\ m.column_name = col
    /\ m.unique_count = Cardinality(DistinctNonNull(df, col))
    /\ InUnitInterval(m.distinct_value_ratio)
    /\ IF Len(df.rows) = 0 THEN m.distinct_value_ratio = PyInt(0)
       ELSE IsQuotient(m.distinct_value_ratio, m.unique_count, Len(df.rows))

\* the Table Metadata meta is that of df, column by column
RatiosOf(meta, df) ==
    /\ meta.row_count = Len(df.rows)
    /\ Len(meta.columns) = Len(df.cols)
    /\ \A c \in DOMAIN meta.columns : RatioOf(meta.columns[c], df, df.cols[c])

\* C23: for every column of every profiled relation, distinct_value_ratio is
\* unique_count / row_count and lies in [0, 1], it is 0 when the relation has
\* no row, and unique_count is the number of distinct non-null values.
C23_DistinctValueRatio ==
    Profiled =>
        \A k \in DOMAIN metadata.tables :
            RatiosOf(metadata.tables[k].meta, file_dfs[FileOf(k)].df)

\* a column with a missing value and a repeated value: two distinct values in
\* three rows
C23_Witness ==
    /\ Profiled
    /\ \E k \in DOMAIN metadata.tables :
          /\ metadata.tables[k].meta.row_count = 3
          /\ \E c \in DOMAIN metadata.tables[k].meta.columns :
                /\ metadata.tables[k].meta.columns[c].nullable
                /\ metadata.tables[k].meta.columns[c].unique_count = 1
                /\ metadata.tables[k].meta.columns[c].distinct_value_ratio = Frac(1, 3)

\* a relation without rows: the ratio of each of its columns is 0
C23_WitnessNoRows ==
    /\ Profiled
    /\ \E k \in DOMAIN metadata.tables :
          /\ metadata.tables[k].meta.row_count = 0
          /\ Len(metadata.tables[k].meta.columns) = 2
          /\ \A c \in DOMAIN metadata.tables[k].meta.columns :
                metadata.tables[k].meta.columns[c].distinct_value_ratio = PyInt(0)

\* ------------------------------------------------------------------ C24
\* a list with an entry that is no mapping
HasMalformed(entries) == \E i \in DOMAIN entries : ~IsDict(entries[i])

\* the entries that are no mapping have an error entry under their own key,
\* and every other entry has an entry of its own
MalformedAnswered(stored, prefix, entries) ==
    \A i \in DOMAIN entries :
        /\ (prefix \o ToString(i)) \in DOMAIN stored
        /\ ~IsDict(entries[i]) => IsErrorEntry(stored[prefix \o ToString(i)])

\* C24: an entry that is no well-formed mapping is fatal to that Operation
\* only, in every plan shape: in an `aggregations` list, in an `operations`
\* list and in the step list of a table-keyed plan the entry gets an error
\* entry under its own key, the other entries and tables are still executed,
\* and the call returns success: true.
C24_MalformedEntryLocal ==
    /\ (Done /\ ListPlan /\ HasMalformed(ListEntries)) =>
          /\ response.success
          /\ MalformedAnswered(response.results, KeyPrefix, ListEntries)
    /\ (Done /\ ~IsNone(plan)) =>
          (Dispatch(plan) = "tables" =>
              \A k \in DOMAIN plan.tables :
                  (/\ HasTable(self_dataframes, plan.tables[k].name)
                   /\ HasMalformed(plan.tables[k].steps)) =>
                      /\ response.success
                      /\ \A j \in DOMAIN plan.tables :
                            HasTable(self_dataframes, plan.tables[j].name) =>
                               /\ plan.tables[j].name \in DOMAIN response.results
                               /\ MalformedAnswered(response.results[plan.tables[j].name],
                                                    "step_", plan.tables[j].steps))

\* ------------------------------------------------------------------ C25
\* a grouped aggregation whose functions are known and one of whose
\* aggregate columns is in df, whatever group_by columns are in df
AggregatesGrouped(df, op) ==
    /\ GroupedAggregate(op)
    /\ RequestsKnownFunctions(op.aggregate)
    /\ PairNames(df, op.aggregate.items) # << >>

\* C25: in a grouped aggregation only the group_by columns that are in the
\* resolved table are retained, the others are dropped without error: the
\* result is an aggregated one, with one row per distinct key of the retained
\* columns, also when only some, or none, of the requested columns exist.
C25_RetainedGroupColumns ==
    (Done /\ ListPlan /\ self_dataframes # << >>) =>
        \A i \in DOMAIN ListEntries :
            AggregatesGrouped(ExpectedTable(self_dataframes, ListEntries[i]),
                              ListEntries[i]) =>
               /\ IsSummary(EntryResult(i))
               /\ EntryResult(i).summary.rows
                     = DistinctKeys(ExpectedTable(self_dataframes, ListEntries[i]),
                                    ListEntries[i].group_by)
               /\ EntryResult(i).summary.columns
                     = Retained(ExpectedTable(self_dataframes, ListEntries[i]),
                                ListEntries[i].group_by)
                       \o PairNames(ExpectedTable(self_dataframes, ListEntries[i]),
                                    ListEntries[i].aggregate.items)

\* ------------------------------------------------------------------ C26
\* a plan of no recognized shape that carries a stage of an Operation
CarriesStage(p) ==
    /\ ~IsNone(p)
    /\ Dispatch(p) = "flexible"
    /\ DOMAIN p \cap {"filters", "group_by", "aggregate", "sort", "limit"} # {}

\* what the mapping gives as one entry of an `aggregations` list on the first
\* table of the registry
AsEntryOnFirst(dataframes, op) ==
    _execute_single_aggregation(<<dataframes[1]>>, op).result

\* the rows and the columns of the two results are the same
SameData(r, expected) ==
    /\ IsSummary(r)
    /\ r.data = expected.data
    /\ r.summary.rows = expected.summary.rows
    /\ r.summary.columns = expected.summary.columns

\* C26: a plan of unrecognized shape is a single Operation keyed
\* main_aggregation: when it carries filters, group_by/aggregate, sort or
\* limit, its result is the one the same mapping gives as an entry of an
\* `aggregations` list on the first table of the registry (filters applied,
\* aggregation computed, sort and limit honoured).
C26_FlexibleAsOperation ==
    (Done /\ CarriesStage(plan) /\ self_dataframes # << >>) =>
        /\ response.success
        /\ DOMAIN response.results = {"main_aggregation"}
        /\ IsSummary(AsEntryOnFirst(self_dataframes, plan)) =>
              SameData(response.results["main_aggregation"],
                       AsEntryOnFirst(self_dataframes, plan))

\* ------------------------------------------------------------------ C27
\* the Operation names the table by the table_name the profiler reported
NamesReportedTable(op) ==
    /\ IsDict(op)
    /\ "table" \in DOMAIN op
    /\ op.table = PyStr(Joined(metadata.tables[1].meta.table_name))

\* the entry i was resolved by exact match and ran on the profiled relation
ResolvedExactly(i) ==
    /\ log[i][1].event = "exact_match"
    /\ IsSummary(EntryResult(i))
    /\ EntryResult(i).summary.columns = file_dfs[1].df.cols
    /\ "limit" \notin DOMAIN ListEntries[i] => EntryResult(i).data = file_dfs[1].df.rows

\* C27: in the pipeline that profiles a file and then executes a plan, an
\* Operation that names the table by the table_name the profiler reported
\* resolves to that relation by exact match in the registry of the executor,
\* never through the first-table fallback, for every source name: with a
\* file extension, upper-case letters or non-alphanumeric characters.
C27_ReportedNameResolves ==
    (Done /\ Profiled /\ ListPlan) =>
        \A i \in DOMAIN ListEntries :
            NamesReportedTable(ListEntries[i]) => ResolvedExactly(i)

\* ------------------------------------------------------------------ C28
\* the keys of the `tables` metadata
TableKeys == {metadata.tables[k].name : k \in DOMAIN metadata.tables}

\* C28: the output of the profiler has exactly one Table Metadata entry per
\* input relation, and every table key of foreign_key_candidates is a key of
\* `tables`: two inputs of distinct source names never collapse into one
\* entry, and no relation is named differently in the relationship metadata
\* than in the table metadata.
C28_OneEntryPerRelation ==
    Profiled =>
        /\ Len(metadata.tables) = Len(file_dfs)
        /\ \A k \in DOMAIN metadata.foreign_key_candidates :
              metadata.foreign_key_candidates[k].name \in TableKeys

\* ------------------------------------------------------------------ C29
\* what execute returns when it succeeds with these results, and when it
\* fails as a batch on a new executor
FreshSuccess(dataframes, stored) ==
    [success |-> TRUE,
     results |-> stored,
     execution_metadata |->
        [tables_processed |-> Len(dataframes),
         aggregations_executed |-> Cardinality(DOMAIN stored),
         total_rows_processed |-> TotalRows(dataframes)]]
FreshFailure(msg) == [success |-> FALSE, error |-> msg, partial_results |-> << >>]

\* the results of a list of Operations on a new executor
FreshList(dataframes, prefix, entries) ==
    [key \in {prefix \o ToString(i) : i \in DOMAIN entries} |->
        _execute_single_aggregation(
            dataframes,
            entries[CHOOSE i \in DOMAIN entries : prefix \o ToString(i) = key]).result]

\* the positions of the tables of a table-keyed plan that are in the registry,
\* and the result of the steps of the table at k
PresentTables(dataframes, tbls) ==
    {k \in DOMAIN tbls : HasTable(dataframes, tbls[k].name)}
FreshSteps(dataframes, tbls, k) ==
    _execute_table_operations(dataframes, Lookup(dataframes, tbls[k].name),
                              tbls[k].steps).result

\* what a new executor returns for a table-keyed plan
FreshTables(dataframes, tbls, present) ==
    IF \E k \in present : Raised(FreshSteps(dataframes, tbls, k))
    THEN FreshFailure(
           FreshSteps(dataframes, tbls,
                      CHOOSE k \in present :
                         /\ Raised(FreshSteps(dataframes, tbls, k))
                         /\ \A j \in present :
                               Raised(FreshSteps(dataframes, tbls, j)) => k <= j).raise)
    ELSE FreshSuccess(dataframes,
           [name \in {tbls[k].name : k \in present} |->
              FreshSteps(dataframes, tbls,
                         CHOOSE k \in present :
                            /\ tbls[k].name = name
                            /\ \A j \in present : tbls[j].name = name => j <= k)])

\* what a new executor returns for the plan p on the registry dataframes
Fresh(p, dataframes) ==
    CASE IsNone(p) -> FreshFailure("argument of type 'NoneType' is not iterable")
      [] Dispatch(p) = "aggregations" ->
            FreshSuccess(dataframes, FreshList(dataframes, "aggregation_", p.aggregations))
      [] Dispatch(p) = "operations" ->
            FreshSuccess(dataframes, FreshList(dataframes, "operation_", p.operations))
      [] Dispatch(p) = "tables" ->
            FreshTables(dataframes, p.tables, PresentTables(dataframes, p.tables))
      [] OTHER ->
            IF dataframes = << >> THEN FreshFailure("list index out of range")
            ELSE FreshSuccess(dataframes,
                              ("main_aggregation" :> _execute_flexible_plan(dataframes, p)))

\* C29: an executor carries no state from one execute call into the next:
\* after any sequence of calls on it (successful, with error entries, failed
\* as a batch) each call returns what a new executor returns for the same
\* plan and registry; results and partial results of an earlier call never
\* appear in the output of a later one.
C29_NoCarriedState ==
    Done => response = Fresh(plan, self_dataframes)

\* a call that succeeded with the results of two aggregations was followed by
\* one that has returned the result of the table sales only
C29_Witness ==
    /\ Done
    /\ ~IsNone(last_return)
    /\ last_return.success
    /\ last_return.keys = {"aggregation_1", "aggregation_2"}
    /\ response.success
    /\ DOMAIN response.results = {"sales"}

\* a call that succeeded with results was followed by one that failed as a
\* batch, without partial results
C29_WitnessBatchFailed ==
    /\ Done
    /\ ~IsNone(last_return)
    /\ last_return.success
    /\ last_return.keys # {}
    /\ ~response.success
    /\ response.partial_results = << >>

\* a call that failed as a batch was followed by one that succeeded with an
\* error entry
C29_WitnessAfterFailure ==
    /\ Done
    /\ ~IsNone(last_return)
    /\ ~last_return.success
    /\ response.success
    /\ \E key \in DOMAIN response.results : IsErrorEntry(response.results[key])

\* ------------------------------------------------------------------ C30
\* the number of steps of the tables of a table-keyed plan that are in the
\* registry
RECURSIVE StepsRun(_, _)
StepsRun(dataframes, tbls) ==
    IF tbls = << >> THEN 0
    ELSE (IF HasTable(dataframes, Head(tbls).name) THEN Len(Head(tbls).steps) ELSE 0)
         + StepsRun(dataframes, Tail(tbls))

\* the number of Operations the plan runs
OperationsRun(p, dataframes) ==
    CASE Dispatch(p) \in {"aggregations", "operations"} -> Len(Entries(p, Dispatch(p)))
      [] Dispatch(p) = "tables" -> StepsRun(dataframes, p.tables)
      [] OTHER -> 1

\* the rows of all relations of the registry
RECURSIVE RowsIn(_)
RowsIn(dataframes) ==
    IF dataframes = << >> THEN 0
    ELSE Len(Head(dataframes).df.rows) + RowsIn(Tail(dataframes))

\* C30: in the execution summary of a successful call the number of executed
\* operations is the number of Operations the plan ran (each step of a
\* table-keyed plan counted, skipped tables not counted), tables_processed is
\* the number of relations of the registry and total_rows_processed is the
\* sum of their row counts.
C30_ExecutionSummary ==
    Succeeded =>
        /\ response.execution_metadata.aggregations_executed
              = OperationsRun(plan, self_dataframes)
        /\ response.execution_metadata.tables_processed = Len(self_dataframes)
        /\ response.execution_metadata.total_rows_processed = RowsIn(self_dataframes)

====
